---------------------------- MODULE Spec2Model ----------------------------
(***************************************************************************)
(* Clinical Research Form Filler (browser extension).                      *)
(*                                                                         *)
(* The module models                                                       *)
(*   - the background service worker (src/background.js): message          *)
(*     dispatch, AIProcessor (extraction and matching), the confidence     *)
(*     calculator and the LearningSystem;                                  *)
(*   - the popup's site management and the PrivacyManager's retention      *)
(*     cleaner, which share chrome.storage.local with the background;      *)
(*   - the field descriptors of the content script (createFieldInfo), the  *)
(*     PrivacyManager's consent and SecurityManager.checkRateLimit.        *)
(*                                                                         *)
(* Conventions                                                             *)
(*   - chrome.storage.local is one variable per key or group of keys that  *)
(*     the modelled code uses (clinicalSites, learningData, the consent,   *)
(*     the attempts of the rate limiter).  A key that is                   *)
(*     absent reads like the empty value, as every reader does             *)
(*     `result.key || empty`.                                              *)
(*   - every `await` on a storage call is a point where other handlers     *)
(*     may run: an async handler is one action per stretch of code         *)
(*     between two awaits.                                                 *)
(*   - scores and confidences are integers in thousandths (1.0 = 1000);    *)
(*     an accuracy is the pair <<correct, total>> of the division the      *)
(*     code performs.                                                      *)
(*   - time is counted in days (the source counts milliseconds); a         *)
(*     timestamp is the day it was taken.                                  *)
(*   - a JavaScript `undefined` property is the value Undefined.           *)
(***************************************************************************)
EXTENDS Integers, Sequences, FiniteSets, TLC

(***************************************************************************)
(* Bounds of the model.                                                    *)
(***************************************************************************)
MaxCalls == 3        \* handleMessage invocations in one behaviour
MaxSeqCalls == 2     \* the same, where every kind of operation takes part
MaxTicks == 1        \* times the clock advances in one behaviour
MaxSites == 1        \* sites the popup creates in one behaviour
MaxFields == 2       \* field descriptors in one matching request
MaxChecks == 3       \* checkRateLimit invocations in one behaviour
MaxBatches == 3      \* deliveries of the MutationObserver in one behaviour
MaxClock == 1500     \* the time of the page, in milliseconds
MaxFills == 2        \* fillField calls in one behaviour
MaxInputs == 2       \* input events of the user in one behaviour

Undefined == "undefined"
NoTime == -1         \* an absent lastUsed

CallIds == 1..MaxCalls

(***************************************************************************)
(* Generic helpers.                                                        *)
(***************************************************************************)
Min(a, b) == IF a < b THEN a ELSE b

\* the element of a set of one element: Only({e(v) : v \in {x}}) is e(x), with
\* x evaluated once however often e uses it (const v = x in the source)
Only(S) == CHOOSE x \in S : TRUE

\* obj[k] = v on a JavaScript object used as a map
Put(obj, k, v) == [x \in (DOMAIN obj) \cup {k} |-> IF x = k THEN v ELSE obj[x]]

EmptyObj == [x \in {} |-> TRUE]

Range(s) == {s[i] : i \in DOMAIN s}

\* Array.prototype.findIndex on the id of a site; 0 models -1
FindSiteIndex(list, siteId) ==
  IF \E i \in DOMAIN list : list[i].id = siteId
  THEN CHOOSE i \in DOMAIN list :
         /\ list[i].id = siteId
         /\ \A j \in DOMAIN list : list[j].id = siteId => i <= j
  ELSE 0


(***************************************************************************)
(* Strings.  A string is a TLA+ string, a character a string of length 1.  *)
(***************************************************************************)
LowerLetters == "abcdefghijklmnopqrstuvwxyz"
UpperLetters == "ABCDEFGHIJKLMNOPQRSTUVWXYZ"
Digits == "0123456789"

Chars(s) == {SubSeq(s, i, i) : i \in 1..Len(s)}

LowerSet == Chars(LowerLetters)
UpperSet == Chars(UpperLetters)
DigitSet == Chars(Digits)

\* \w of a JavaScript regular expression
WordSet == LowerSet \cup UpperSet \cup DigitSet \cup {"_"}

\* \s, for the white space that occurs in the texts of the model
SpaceSet == {" ", "\n", "\t"}

CharAt(s, i) == SubSeq(s, i, i)

LowerChar(c) ==
  IF c \in UpperSet
  THEN CharAt(LowerLetters, CHOOSE i \in 1..26 : CharAt(UpperLetters, i) = c)
  ELSE c

\* String.prototype.toLowerCase
RECURSIVE LowerFrom(_, _)
LowerFrom(s, k) ==
  IF k > Len(s) THEN "" ELSE LowerChar(CharAt(s, k)) \o LowerFrom(s, k + 1)

toLowerCase(s) == Only({LowerFrom(v, 1) : v \in {s}})

\* String.prototype.includes
Includes(text, part) ==
  Only({(\E i \in 1..(Len(t) - Len(q) + 1) : SubSeq(t, i, i + Len(q) - 1) = q) :
          t \in {text}, q \in {part}})

\* \b between the characters i-1 and i of text
IsWordAt(text, i) == i >= 1 /\ i <= Len(text) /\ CharAt(text, i) \in WordSet
Boundary(text, i) == IsWordAt(text, i - 1) # IsWordAt(text, i)

\* new RegExp(`\\b${keyword}\\b`, 'i').test(text), for a keyword without
\* regular-expression metacharacters
WordTest(text, keyword) ==
  Only({(\E i \in 1..(Len(t) - Len(k) + 1) :
           /\ SubSeq(t, i, i + Len(k) - 1) = k
           /\ Boundary(t, i)
           /\ Boundary(t, i + Len(k))) :
          t \in {toLowerCase(text)}, k \in {toLowerCase(keyword)}})

\* the first and the last position of s that holds no white space
FirstNonSpace(s) ==
  CHOOSE i \in 1..Len(s) :
    /\ CharAt(s, i) \notin SpaceSet
    /\ \A j \in 1..(i - 1) : CharAt(s, j) \in SpaceSet
LastNonSpace(s) ==
  CHOOSE i \in 1..Len(s) :
    /\ CharAt(s, i) \notin SpaceSet
    /\ \A j \in (i + 1)..Len(s) : CharAt(s, j) \in SpaceSet
Blank(s) == \A i \in 1..Len(s) : CharAt(s, i) \in SpaceSet

\* String.prototype.trim, and its left half
TrimLeft(s) ==
  Only({IF Blank(v) THEN "" ELSE SubSeq(v, FirstNonSpace(v), Len(v)) : v \in {s}})
Trim(s) ==
  Only({IF Blank(v) THEN "" ELSE SubSeq(v, FirstNonSpace(v), LastNonSpace(v)) :
          v \in {s}})

(***************************************************************************)
(* Regular expressions.                                                    *)
(*                                                                         *)
(* An expression is a tree: a literal, a character class, a repetition     *)
(* (greedy, max = -1 for no upper limit), a sequence or an alternation.    *)
(* Ends(e, text, i, ci) lists the positions at which a match of e that     *)
(* starts at position i of text may end, in the order in which a           *)
(* backtracking matcher tries them; ci is the flag i.                      *)
(***************************************************************************)
Lit(str) == [t |-> "lit", s |-> str]
Cls(set) == [t |-> "cls", set |-> set, neg |-> FALSE]
NotCls(set) == [t |-> "cls", set |-> set, neg |-> TRUE]
Rep(e, min, max) == [t |-> "rep", e |-> e, min |-> min, max |-> max]
Star(e) == Rep(e, 0, -1)
Plus(e) == Rep(e, 1, -1)
Opt(e) == Rep(e, 0, 1)
Cat(es) == [t |-> "cat", es |-> es]
Alt(es) == [t |-> "alt", es |-> es]

UpperChar(c) ==
  IF c \in LowerSet
  THEN CharAt(UpperLetters, CHOOSE i \in 1..26 : CharAt(LowerLetters, i) = c)
  ELSE c

ClassHas(cls, c, ci) ==
  (c \in cls.set \/ (ci /\ (LowerChar(c) \in cls.set \/ UpperChar(c) \in cls.set)))
    # cls.neg

LitAt(str, text, i, ci) ==
  /\ i + Len(str) - 1 <= Len(text)
  /\ \A k \in 1..Len(str) :
       LET a == CharAt(text, i + k - 1)
           b == CharAt(str, k)
       IN a = b \/ (ci /\ LowerChar(a) = LowerChar(b))

\* the length of the run of characters of a class that starts at i
RunLength(cls, text, i, ci) ==
  (CHOOSE k \in i..(Len(text) + 1) :
     /\ k = Len(text) + 1 \/ ~ClassHas(cls, CharAt(text, k), ci)
     /\ \A n \in i..(k - 1) : ClassHas(cls, CharAt(text, n), ci)) - i

RECURSIVE Ends(_, _, _, _)
RECURSIVE AltFrom(_, _, _, _, _)
RECURSIVE EndsCat(_, _, _, _, _)
RECURSIVE CatOver(_, _, _, _, _, _)
RECURSIVE EndsRep(_, _, _, _, _)
RECURSIVE RepOver(_, _, _, _, _, _)

Ends(e, text, i, ci) ==
  CASE e.t = "lit" -> IF LitAt(e.s, text, i, ci) THEN <<i + Len(e.s)>> ELSE <<>>
    [] e.t = "cls" -> IF i <= Len(text) /\ ClassHas(e, CharAt(text, i), ci)
                      THEN <<i + 1>> ELSE <<>>
    [] e.t = "cat" -> EndsCat(e.es, 1, text, i, ci)
    [] e.t = "alt" -> AltFrom(e.es, 1, text, i, ci)
    [] e.t = "rep" ->
         IF e.e.t = "cls"
         THEN \* a run of single characters: longest first
              Only({IF most < e.min THEN <<>>
                    ELSE [k \in 1..(most - e.min + 1) |-> i + most - k + 1] :
                      most \in {IF e.max = -1 THEN RunLength(e.e, text, i, ci)
                                ELSE Min(RunLength(e.e, text, i, ci), e.max)}})
         ELSE EndsRep(e, 0, text, i, ci)

\* the alternatives from the k-th on, in their order
AltFrom(es, k, text, i, ci) ==
  IF k > Len(es) THEN <<>>
  ELSE Ends(es[k], text, i, ci) \o AltFrom(es, k + 1, text, i, ci)

EndsCat(es, k, text, i, ci) ==
  IF k > Len(es) THEN <<i>>
  ELSE Only({CatOver(es, k, text, firsts, 1, ci) :
               firsts \in {Ends(es[k], text, i, ci)}})

\* the rest of a sequence after each of the ends of its k-th element, from
\* the n-th end on
CatOver(es, k, text, firsts, n, ci) ==
  IF n > Len(firsts) THEN <<>>
  ELSE EndsCat(es, k + 1, text, firsts[n], ci)
         \o CatOver(es, k, text, firsts, n + 1, ci)

\* one more iteration is tried before the repetition is left; an iteration
\* that matches the empty string is not repeated
EndsRep(e, count, text, i, ci) ==
  Only({IF count >= e.min THEN Append(RepOver(e, count, text, nexts, 1, ci), i)
        ELSE RepOver(e, count, text, nexts, 1, ci) :
          nexts \in {IF e.max = -1 \/ count < e.max
                     THEN SelectSeq(Ends(e.e, text, i, ci), LAMBDA j : j > i)
                     ELSE <<>>}})

RepOver(e, count, text, nexts, n, ci) ==
  IF n > Len(nexts) THEN <<>>
  ELSE EndsRep(e, count + 1, text, nexts[n], ci)
         \o RepOver(e, count, text, nexts, n + 1, ci)

\* A pattern of the program is `pre (cap) post`: one capturing group between
\* two expressions.  The first way to match the group from j1 and the rest
\* after it, trying the ends of the group from the n-th on, as <<start of
\* the group, end of the group, end of the match>>, or <<>>.
RECURSIVE CapOver(_, _, _, _, _, _)
CapOver(p, text, ci, j1, caps, n) ==
  IF n > Len(caps) THEN <<>>
  ELSE Only({IF posts # <<>> THEN <<j1, caps[n], posts[1]>>
             ELSE CapOver(p, text, ci, j1, caps, n + 1) :
               posts \in {Ends(p.post, text, caps[n], ci)}})

\* the same, trying the ends of `pre` from the n-th on
RECURSIVE PreOver(_, _, _, _, _)
PreOver(p, text, ci, pres, n) ==
  IF n > Len(pres) THEN <<>>
  ELSE Only({IF m # <<>> THEN m ELSE PreOver(p, text, ci, pres, n + 1) :
               m \in {Only({CapOver(p, text, ci, pres[n], caps, 1) :
                              caps \in {Ends(p.cap, text, pres[n], ci)}})}})

\* The match that starts at i, as <<i, start of the group, end of the group,
\* end of the match>>, or <<>>.
MatchAt(p, text, i) ==
  Only({IF m = <<>> THEN <<>> ELSE <<i>> \o m :
          m \in {Only({PreOver(p, text, ci, pres, 1) :
                         ci \in {Includes(p.flags, "i")},
                         pres \in {Ends(p.pre, text, i, Includes(p.flags, "i"))}})}})

\* the leftmost match that starts at i or later, as
\* [all |-> match[0], group |-> match[1]] in a list of at most one
MatchFrom(p, text, i) ==
  Only({IF ms = <<>> THEN <<>>
        ELSE <<[all |-> SubSeq(text, ms[1][1], ms[1][4] - 1),
                group |-> SubSeq(text, ms[1][2], ms[1][3] - 1)]>> :
          ms \in {SelectSeq([k \in 1..(Len(text) + 2 - i) |->
                               MatchAt(p, text, i + k - 1)],
                            LAMBDA m : m # <<>>)}})

\* String.prototype.match for a pattern without the flag g
Match(p, text) == Only({MatchFrom(q, t, 1) : q \in {p}, t \in {text}})

(***************************************************************************)
(* AIProcessor: the pattern library and extraction (src/background.js).    *)
(* A pattern carries its source text, its flags and the three parts        *)
(* `pre (cap) post` of its expression.                                     *)
(***************************************************************************)
\* lines 85-246: the patterns of each type, in declaration order
fieldPatterns ==
  <<
   [fieldType |-> "principalInvestigator", patterns |-> <<
      [source |-> "principal\\s+investigator[:\\s]*([^,\\n]+)", flags |-> "i",
       pre |-> Cat(<<Lit("principal"), Plus(Cls(SpaceSet)), Lit("investigator"), Star(Cls(SpaceSet \cup {":"}))>>),
       cap |-> Plus(NotCls({",", "\n"})),
       post |-> Cat(<<>>)],
      [source |-> "pi[:\\s]*([^,\\n]+)", flags |-> "i",
       pre |-> Cat(<<Lit("pi"), Star(Cls(SpaceSet \cup {":"}))>>),
       cap |-> Plus(NotCls({",", "\n"})),
       post |-> Cat(<<>>)],
      [source |-> "dr\\.?\\s+([^,\\n]+)", flags |-> "i",
       pre |-> Cat(<<Lit("dr"), Opt(Lit(".")), Plus(Cls(SpaceSet))>>),
       cap |-> Plus(NotCls({",", "\n"})),
       post |-> Cat(<<>>)],
      [source |-> "investigator[:\\s]*([^,\\n]+)", flags |-> "i",
       pre |-> Cat(<<Lit("investigator"), Star(Cls(SpaceSet \cup {":"}))>>),
       cap |-> Plus(NotCls({",", "\n"})),
       post |-> Cat(<<>>)],
      [source |-> "physician[:\\s]*([^,\\n]+)", flags |-> "i",
       pre |-> Cat(<<Lit("physician"), Star(Cls(SpaceSet \cup {":"}))>>),
       cap |-> Plus(NotCls({",", "\n"})),
       post |-> Cat(<<>>)],
      [source |-> "doctor[:\\s]*([^,\\n]+)", flags |-> "i",
       pre |-> Cat(<<Lit("doctor"), Star(Cls(SpaceSet \cup {":"}))>>),
       cap |-> Plus(NotCls({",", "\n"})),
       post |-> Cat(<<>>)]>>],
   [fieldType |-> "firstName", patterns |-> <<
      [source |-> "first\\s+name[:\\s]*([^,\\n]+)", flags |-> "i",
       pre |-> Cat(<<Lit("first"), Plus(Cls(SpaceSet)), Lit("name"), Star(Cls(SpaceSet \cup {":"}))>>),
       cap |-> Plus(NotCls({",", "\n"})),
       post |-> Cat(<<>>)],
      [source |-> "fname[:\\s]*([^,\\n]+)", flags |-> "i",
       pre |-> Cat(<<Lit("fname"), Star(Cls(SpaceSet \cup {":"}))>>),
       cap |-> Plus(NotCls({",", "\n"})),
       post |-> Cat(<<>>)],
      [source |-> "given\\s+name[:\\s]*([^,\\n]+)", flags |-> "i",
       pre |-> Cat(<<Lit("given"), Plus(Cls(SpaceSet)), Lit("name"), Star(Cls(SpaceSet \cup {":"}))>>),
       cap |-> Plus(NotCls({",", "\n"})),
       post |-> Cat(<<>>)]>>],
   [fieldType |-> "lastName", patterns |-> <<
      [source |-> "last\\s+name[:\\s]*([^,\\n]+)", flags |-> "i",
       pre |-> Cat(<<Lit("last"), Plus(Cls(SpaceSet)), Lit("name"), Star(Cls(SpaceSet \cup {":"}))>>),
       cap |-> Plus(NotCls({",", "\n"})),
       post |-> Cat(<<>>)],
      [source |-> "lname[:\\s]*([^,\\n]+)", flags |-> "i",
       pre |-> Cat(<<Lit("lname"), Star(Cls(SpaceSet \cup {":"}))>>),
       cap |-> Plus(NotCls({",", "\n"})),
       post |-> Cat(<<>>)],
      [source |-> "surname[:\\s]*([^,\\n]+)", flags |-> "i",
       pre |-> Cat(<<Lit("surname"), Star(Cls(SpaceSet \cup {":"}))>>),
       cap |-> Plus(NotCls({",", "\n"})),
       post |-> Cat(<<>>)],
      [source |-> "family\\s+name[:\\s]*([^,\\n]+)", flags |-> "i",
       pre |-> Cat(<<Lit("family"), Plus(Cls(SpaceSet)), Lit("name"), Star(Cls(SpaceSet \cup {":"}))>>),
       cap |-> Plus(NotCls({",", "\n"})),
       post |-> Cat(<<>>)]>>],
   [fieldType |-> "fullName", patterns |-> <<
      [source |-> "name[:\\s]*([^,\\n]+)", flags |-> "i",
       pre |-> Cat(<<Lit("name"), Star(Cls(SpaceSet \cup {":"}))>>),
       cap |-> Plus(NotCls({",", "\n"})),
       post |-> Cat(<<>>)],
      [source |-> "contact[:\\s]*([^,\\n]+)", flags |-> "i",
       pre |-> Cat(<<Lit("contact"), Star(Cls(SpaceSet \cup {":"}))>>),
       cap |-> Plus(NotCls({",", "\n"})),
       post |-> Cat(<<>>)]>>],
   [fieldType |-> "phone", patterns |-> <<
      [source |-> "phone[:\\s]*(\\(?[\\d\\s\\-\\.\\(\\)]{10,})", flags |-> "i",
       pre |-> Cat(<<Lit("phone"), Star(Cls(SpaceSet \cup {":"}))>>),
       cap |-> Cat(<<Opt(Lit("(")), Rep(Cls(DigitSet \cup SpaceSet \cup {"-", ".", "(", ")"}), 10, -1)>>),
       post |-> Cat(<<>>)],
      [source |-> "tel[:\\s]*(\\(?[\\d\\s\\-\\.\\(\\)]{10,})", flags |-> "i",
       pre |-> Cat(<<Lit("tel"), Star(Cls(SpaceSet \cup {":"}))>>),
       cap |-> Cat(<<Opt(Lit("(")), Rep(Cls(DigitSet \cup SpaceSet \cup {"-", ".", "(", ")"}), 10, -1)>>),
       post |-> Cat(<<>>)],
      [source |-> "telephone[:\\s]*(\\(?[\\d\\s\\-\\.\\(\\)]{10,})", flags |-> "i",
       pre |-> Cat(<<Lit("telephone"), Star(Cls(SpaceSet \cup {":"}))>>),
       cap |-> Cat(<<Opt(Lit("(")), Rep(Cls(DigitSet \cup SpaceSet \cup {"-", ".", "(", ")"}), 10, -1)>>),
       post |-> Cat(<<>>)],
      [source |-> "mobile[:\\s]*(\\(?[\\d\\s\\-\\.\\(\\)]{10,})", flags |-> "i",
       pre |-> Cat(<<Lit("mobile"), Star(Cls(SpaceSet \cup {":"}))>>),
       cap |-> Cat(<<Opt(Lit("(")), Rep(Cls(DigitSet \cup SpaceSet \cup {"-", ".", "(", ")"}), 10, -1)>>),
       post |-> Cat(<<>>)],
      [source |-> "cell[:\\s]*(\\(?[\\d\\s\\-\\.\\(\\)]{10,})", flags |-> "i",
       pre |-> Cat(<<Lit("cell"), Star(Cls(SpaceSet \cup {":"}))>>),
       cap |-> Cat(<<Opt(Lit("(")), Rep(Cls(DigitSet \cup SpaceSet \cup {"-", ".", "(", ")"}), 10, -1)>>),
       post |-> Cat(<<>>)],
      [source |-> "(\\(\\d{3}\\)\\s*\\d{3}-\\d{4})", flags |-> "",
       pre |-> Cat(<<>>),
       cap |-> Cat(<<Lit("("), Rep(Cls(DigitSet), 3, 3), Lit(")"), Star(Cls(SpaceSet)), Rep(Cls(DigitSet), 3, 3), Lit("-"), Rep(Cls(DigitSet), 4, 4)>>),
       post |-> Cat(<<>>)],
      [source |-> "(\\d{3}[-\\.\\s]?\\d{3}[-\\.\\s]?\\d{4})", flags |-> "",
       pre |-> Cat(<<>>),
       cap |-> Cat(<<Rep(Cls(DigitSet), 3, 3), Opt(Cls(SpaceSet \cup {"-", "."})), Rep(Cls(DigitSet), 3, 3), Opt(Cls(SpaceSet \cup {"-", "."})), Rep(Cls(DigitSet), 4, 4)>>),
       post |-> Cat(<<>>)]>>],
   [fieldType |-> "email", patterns |-> <<
      [source |-> "email[:\\s]*([a-zA-Z0-9._%+-]+@[a-zA-Z0-9.-]+\\.[a-zA-Z]{2,})", flags |-> "i",
       pre |-> Cat(<<Lit("email"), Star(Cls(SpaceSet \cup {":"}))>>),
       cap |-> Cat(<<Plus(Cls(LowerSet \cup UpperSet \cup DigitSet \cup {".", "_", "%", "+", "-"})), Lit("@"), Plus(Cls(LowerSet \cup UpperSet \cup DigitSet \cup {".", "-"})), Lit("."), Rep(Cls(LowerSet \cup UpperSet), 2, -1)>>),
       post |-> Cat(<<>>)],
      [source |-> "mail[:\\s]*([a-zA-Z0-9._%+-]+@[a-zA-Z0-9.-]+\\.[a-zA-Z]{2,})", flags |-> "i",
       pre |-> Cat(<<Lit("mail"), Star(Cls(SpaceSet \cup {":"}))>>),
       cap |-> Cat(<<Plus(Cls(LowerSet \cup UpperSet \cup DigitSet \cup {".", "_", "%", "+", "-"})), Lit("@"), Plus(Cls(LowerSet \cup UpperSet \cup DigitSet \cup {".", "-"})), Lit("."), Rep(Cls(LowerSet \cup UpperSet), 2, -1)>>),
       post |-> Cat(<<>>)],
      [source |-> "e-mail[:\\s]*([a-zA-Z0-9._%+-]+@[a-zA-Z0-9.-]+\\.[a-zA-Z]{2,})", flags |-> "i",
       pre |-> Cat(<<Lit("e-mail"), Star(Cls(SpaceSet \cup {":"}))>>),
       cap |-> Cat(<<Plus(Cls(LowerSet \cup UpperSet \cup DigitSet \cup {".", "_", "%", "+", "-"})), Lit("@"), Plus(Cls(LowerSet \cup UpperSet \cup DigitSet \cup {".", "-"})), Lit("."), Rep(Cls(LowerSet \cup UpperSet), 2, -1)>>),
       post |-> Cat(<<>>)],
      [source |-> "([a-zA-Z0-9._%+-]+@[a-zA-Z0-9.-]+\\.[a-zA-Z]{2,})", flags |-> "",
       pre |-> Cat(<<>>),
       cap |-> Cat(<<Plus(Cls(LowerSet \cup UpperSet \cup DigitSet \cup {".", "_", "%", "+", "-"})), Lit("@"), Plus(Cls(LowerSet \cup UpperSet \cup DigitSet \cup {".", "-"})), Lit("."), Rep(Cls(LowerSet \cup UpperSet), 2, -1)>>),
       post |-> Cat(<<>>)]>>],
   [fieldType |-> "fax", patterns |-> <<
      [source |-> "fax[:\\s]*(\\(?[\\d\\s\\-\\.\\(\\)]{10,})", flags |-> "i",
       pre |-> Cat(<<Lit("fax"), Star(Cls(SpaceSet \cup {":"}))>>),
       cap |-> Cat(<<Opt(Lit("(")), Rep(Cls(DigitSet \cup SpaceSet \cup {"-", ".", "(", ")"}), 10, -1)>>),
       post |-> Cat(<<>>)],
      [source |-> "facsimile[:\\s]*(\\(?[\\d\\s\\-\\.\\(\\)]{10,})", flags |-> "i",
       pre |-> Cat(<<Lit("facsimile"), Star(Cls(SpaceSet \cup {":"}))>>),
       cap |-> Cat(<<Opt(Lit("(")), Rep(Cls(DigitSet \cup SpaceSet \cup {"-", ".", "(", ")"}), 10, -1)>>),
       post |-> Cat(<<>>)]>>],
   [fieldType |-> "address", patterns |-> <<
      [source |-> "address[:\\s]*([^,\\n]+(?:,\\s*[^,\\n]+)*)", flags |-> "i",
       pre |-> Cat(<<Lit("address"), Star(Cls(SpaceSet \cup {":"}))>>),
       cap |-> Cat(<<Plus(NotCls({",", "\n"})), Star(Cat(<<Lit(","), Star(Cls(SpaceSet)), Plus(NotCls({",", "\n"}))>>))>>),
       post |-> Cat(<<>>)],
      [source |-> "street[:\\s]*([^,\\n]+(?:,\\s*[^,\\n]+)*)", flags |-> "i",
       pre |-> Cat(<<Lit("street"), Star(Cls(SpaceSet \cup {":"}))>>),
       cap |-> Cat(<<Plus(NotCls({",", "\n"})), Star(Cat(<<Lit(","), Star(Cls(SpaceSet)), Plus(NotCls({",", "\n"}))>>))>>),
       post |-> Cat(<<>>)],
      [source |-> "location[:\\s]*([^,\\n]+(?:,\\s*[^,\\n]+)*)", flags |-> "i",
       pre |-> Cat(<<Lit("location"), Star(Cls(SpaceSet \cup {":"}))>>),
       cap |-> Cat(<<Plus(NotCls({",", "\n"})), Star(Cat(<<Lit(","), Star(Cls(SpaceSet)), Plus(NotCls({",", "\n"}))>>))>>),
       post |-> Cat(<<>>)],
      [source |-> "(\\d+\\s+[^,\\n]+(?:,\\s*[^,\\n]+)*)", flags |-> "",
       pre |-> Cat(<<>>),
       cap |-> Cat(<<Plus(Cls(DigitSet)), Plus(Cls(SpaceSet)), Plus(NotCls({",", "\n"})), Star(Cat(<<Lit(","), Star(Cls(SpaceSet)), Plus(NotCls({",", "\n"}))>>))>>),
       post |-> Cat(<<>>)]>>],
   [fieldType |-> "city", patterns |-> <<
      [source |-> "city[:\\s]*([^,\\n]+)", flags |-> "i",
       pre |-> Cat(<<Lit("city"), Star(Cls(SpaceSet \cup {":"}))>>),
       cap |-> Plus(NotCls({",", "\n"})),
       post |-> Cat(<<>>)],
      [source |-> "town[:\\s]*([^,\\n]+)", flags |-> "i",
       pre |-> Cat(<<Lit("town"), Star(Cls(SpaceSet \cup {":"}))>>),
       cap |-> Plus(NotCls({",", "\n"})),
       post |-> Cat(<<>>)],
      [source |-> ",\\s*([A-Za-z\\s]+),\\s*[A-Z]{2}", flags |-> "",
       pre |-> Cat(<<Lit(","), Star(Cls(SpaceSet))>>),
       cap |-> Plus(Cls(UpperSet \cup LowerSet \cup SpaceSet)),
       post |-> Cat(<<Lit(","), Star(Cls(SpaceSet)), Rep(Cls(UpperSet), 2, 2)>>)],
      [source |-> "address[^,\\n]*,\\s*([^,\\n]+),", flags |-> "i",
       pre |-> Cat(<<Lit("address"), Star(NotCls({",", "\n"})), Lit(","), Star(Cls(SpaceSet))>>),
       cap |-> Plus(NotCls({",", "\n"})),
       post |-> Cat(<<Lit(",")>>)]>>],
   [fieldType |-> "state", patterns |-> <<
      [source |-> "state[:\\s]*([A-Z]{2}|[A-Za-z\\s]+)", flags |-> "i",
       pre |-> Cat(<<Lit("state"), Star(Cls(SpaceSet \cup {":"}))>>),
       cap |-> Alt(<<Rep(Cls(UpperSet), 2, 2), Plus(Cls(UpperSet \cup LowerSet \cup SpaceSet))>>),
       post |-> Cat(<<>>)],
      [source |-> "province[:\\s]*([A-Z]{2}|[A-Za-z\\s]+)", flags |-> "i",
       pre |-> Cat(<<Lit("province"), Star(Cls(SpaceSet \cup {":"}))>>),
       cap |-> Alt(<<Rep(Cls(UpperSet), 2, 2), Plus(Cls(UpperSet \cup LowerSet \cup SpaceSet))>>),
       post |-> Cat(<<>>)],
      [source |-> ",\\s*([A-Z]{2})\\s+\\d{5}", flags |-> "",
       pre |-> Cat(<<Lit(","), Star(Cls(SpaceSet))>>),
       cap |-> Rep(Cls(UpperSet), 2, 2),
       post |-> Cat(<<Plus(Cls(SpaceSet)), Rep(Cls(DigitSet), 5, 5)>>)],
      [source |-> ",\\s*([A-Za-z\\s]+)\\s+\\d{5}", flags |-> "",
       pre |-> Cat(<<Lit(","), Star(Cls(SpaceSet))>>),
       cap |-> Plus(Cls(UpperSet \cup LowerSet \cup SpaceSet)),
       post |-> Cat(<<Plus(Cls(SpaceSet)), Rep(Cls(DigitSet), 5, 5)>>)]>>],
   [fieldType |-> "zipCode", patterns |-> <<
      [source |-> "zip[:\\s]*(\\d{5}(?:-\\d{4})?)", flags |-> "i",
       pre |-> Cat(<<Lit("zip"), Star(Cls(SpaceSet \cup {":"}))>>),
       cap |-> Cat(<<Rep(Cls(DigitSet), 5, 5), Opt(Cat(<<Lit("-"), Rep(Cls(DigitSet), 4, 4)>>))>>),
       post |-> Cat(<<>>)],
      [source |-> "postal[:\\s]*(\\d{5}(?:-\\d{4})?)", flags |-> "i",
       pre |-> Cat(<<Lit("postal"), Star(Cls(SpaceSet \cup {":"}))>>),
       cap |-> Cat(<<Rep(Cls(DigitSet), 5, 5), Opt(Cat(<<Lit("-"), Rep(Cls(DigitSet), 4, 4)>>))>>),
       post |-> Cat(<<>>)],
      [source |-> "zip\\s+code[:\\s]*(\\d{5}(?:-\\d{4})?)", flags |-> "i",
       pre |-> Cat(<<Lit("zip"), Plus(Cls(SpaceSet)), Lit("code"), Star(Cls(SpaceSet \cup {":"}))>>),
       cap |-> Cat(<<Rep(Cls(DigitSet), 5, 5), Opt(Cat(<<Lit("-"), Rep(Cls(DigitSet), 4, 4)>>))>>),
       post |-> Cat(<<>>)],
      [source |-> "(\\d{5}(?:-\\d{4})?)", flags |-> "",
       pre |-> Cat(<<>>),
       cap |-> Cat(<<Rep(Cls(DigitSet), 5, 5), Opt(Cat(<<Lit("-"), Rep(Cls(DigitSet), 4, 4)>>))>>),
       post |-> Cat(<<>>)]>>],
   [fieldType |-> "country", patterns |-> <<
      [source |-> "country[:\\s]*([^,\\n]+)", flags |-> "i",
       pre |-> Cat(<<Lit("country"), Star(Cls(SpaceSet \cup {":"}))>>),
       cap |-> Plus(NotCls({",", "\n"})),
       post |-> Cat(<<>>)],
      [source |-> "nation[:\\s]*([^,\\n]+)", flags |-> "i",
       pre |-> Cat(<<Lit("nation"), Star(Cls(SpaceSet \cup {":"}))>>),
       cap |-> Plus(NotCls({",", "\n"})),
       post |-> Cat(<<>>)]>>],
   [fieldType |-> "institutionName", patterns |-> <<
      [source |-> "institution[:\\s]*([^,\\n]+)", flags |-> "i",
       pre |-> Cat(<<Lit("institution"), Star(Cls(SpaceSet \cup {":"}))>>),
       cap |-> Plus(NotCls({",", "\n"})),
       post |-> Cat(<<>>)],
      [source |-> "hospital[:\\s]*([^,\\n]+)", flags |-> "i",
       pre |-> Cat(<<Lit("hospital"), Star(Cls(SpaceSet \cup {":"}))>>),
       cap |-> Plus(NotCls({",", "\n"})),
       post |-> Cat(<<>>)],
      [source |-> "center[:\\s]*([^,\\n]+)", flags |-> "i",
       pre |-> Cat(<<Lit("center"), Star(Cls(SpaceSet \cup {":"}))>>),
       cap |-> Plus(NotCls({",", "\n"})),
       post |-> Cat(<<>>)],
      [source |-> "centre[:\\s]*([^,\\n]+)", flags |-> "i",
       pre |-> Cat(<<Lit("centre"), Star(Cls(SpaceSet \cup {":"}))>>),
       cap |-> Plus(NotCls({",", "\n"})),
       post |-> Cat(<<>>)],
      [source |-> "clinic[:\\s]*([^,\\n]+)", flags |-> "i",
       pre |-> Cat(<<Lit("clinic"), Star(Cls(SpaceSet \cup {":"}))>>),
       cap |-> Plus(NotCls({",", "\n"})),
       post |-> Cat(<<>>)],
      [source |-> "university[:\\s]*([^,\\n]+)", flags |-> "i",
       pre |-> Cat(<<Lit("university"), Star(Cls(SpaceSet \cup {":"}))>>),
       cap |-> Plus(NotCls({",", "\n"})),
       post |-> Cat(<<>>)],
      [source |-> "college[:\\s]*([^,\\n]+)", flags |-> "i",
       pre |-> Cat(<<Lit("college"), Star(Cls(SpaceSet \cup {":"}))>>),
       cap |-> Plus(NotCls({",", "\n"})),
       post |-> Cat(<<>>)],
      [source |-> "organization[:\\s]*([^,\\n]+)", flags |-> "i",
       pre |-> Cat(<<Lit("organization"), Star(Cls(SpaceSet \cup {":"}))>>),
       cap |-> Plus(NotCls({",", "\n"})),
       post |-> Cat(<<>>)],
      [source |-> "organisation[:\\s]*([^,\\n]+)", flags |-> "i",
       pre |-> Cat(<<Lit("organisation"), Star(Cls(SpaceSet \cup {":"}))>>),
       cap |-> Plus(NotCls({",", "\n"})),
       post |-> Cat(<<>>)],
      [source |-> "company[:\\s]*([^,\\n]+)", flags |-> "i",
       pre |-> Cat(<<Lit("company"), Star(Cls(SpaceSet \cup {":"}))>>),
       cap |-> Plus(NotCls({",", "\n"})),
       post |-> Cat(<<>>)]>>],
   [fieldType |-> "department", patterns |-> <<
      [source |-> "department[:\\s]*([^,\\n]+)", flags |-> "i",
       pre |-> Cat(<<Lit("department"), Star(Cls(SpaceSet \cup {":"}))>>),
       cap |-> Plus(NotCls({",", "\n"})),
       post |-> Cat(<<>>)],
      [source |-> "dept[:\\s]*([^,\\n]+)", flags |-> "i",
       pre |-> Cat(<<Lit("dept"), Star(Cls(SpaceSet \cup {":"}))>>),
       cap |-> Plus(NotCls({",", "\n"})),
       post |-> Cat(<<>>)],
      [source |-> "division[:\\s]*([^,\\n]+)", flags |-> "i",
       pre |-> Cat(<<Lit("division"), Star(Cls(SpaceSet \cup {":"}))>>),
       cap |-> Plus(NotCls({",", "\n"})),
       post |-> Cat(<<>>)],
      [source |-> "unit[:\\s]*([^,\\n]+)", flags |-> "i",
       pre |-> Cat(<<Lit("unit"), Star(Cls(SpaceSet \cup {":"}))>>),
       cap |-> Plus(NotCls({",", "\n"})),
       post |-> Cat(<<>>)],
      [source |-> "section[:\\s]*([^,\\n]+)", flags |-> "i",
       pre |-> Cat(<<Lit("section"), Star(Cls(SpaceSet \cup {":"}))>>),
       cap |-> Plus(NotCls({",", "\n"})),
       post |-> Cat(<<>>)]>>],
   [fieldType |-> "irbContact", patterns |-> <<
      [source |-> "irb[:\\s]*([^,\\n]+)", flags |-> "i",
       pre |-> Cat(<<Lit("irb"), Star(Cls(SpaceSet \cup {":"}))>>),
       cap |-> Plus(NotCls({",", "\n"})),
       post |-> Cat(<<>>)],
      [source |-> "institutional\\s+review\\s+board[:\\s]*([^,\\n]+)", flags |-> "i",
       pre |-> Cat(<<Lit("institutional"), Plus(Cls(SpaceSet)), Lit("review"), Plus(Cls(SpaceSet)), Lit("board"), Star(Cls(SpaceSet \cup {":"}))>>),
       cap |-> Plus(NotCls({",", "\n"})),
       post |-> Cat(<<>>)],
      [source |-> "ethics[:\\s]*([^,\\n]+)", flags |-> "i",
       pre |-> Cat(<<Lit("ethics"), Star(Cls(SpaceSet \cup {":"}))>>),
       cap |-> Plus(NotCls({",", "\n"})),
       post |-> Cat(<<>>)],
      [source |-> "review\\s+board[:\\s]*([^,\\n]+)", flags |-> "i",
       pre |-> Cat(<<Lit("review"), Plus(Cls(SpaceSet)), Lit("board"), Star(Cls(SpaceSet \cup {":"}))>>),
       cap |-> Plus(NotCls({",", "\n"})),
       post |-> Cat(<<>>)]>>],
   [fieldType |-> "licenseNumber", patterns |-> <<
      [source |-> "license[:\\s]*([A-Z0-9\\-]+)", flags |-> "i",
       pre |-> Cat(<<Lit("license"), Star(Cls(SpaceSet \cup {":"}))>>),
       cap |-> Plus(Cls(UpperSet \cup DigitSet \cup {"-"})),
       post |-> Cat(<<>>)],
      [source |-> "licence[:\\s]*([A-Z0-9\\-]+)", flags |-> "i",
       pre |-> Cat(<<Lit("licence"), Star(Cls(SpaceSet \cup {":"}))>>),
       cap |-> Plus(Cls(UpperSet \cup DigitSet \cup {"-"})),
       post |-> Cat(<<>>)],
      [source |-> "license\\s+number[:\\s]*([A-Z0-9\\-]+)", flags |-> "i",
       pre |-> Cat(<<Lit("license"), Plus(Cls(SpaceSet)), Lit("number"), Star(Cls(SpaceSet \cup {":"}))>>),
       cap |-> Plus(Cls(UpperSet \cup DigitSet \cup {"-"})),
       post |-> Cat(<<>>)],
      [source |-> "lic[:\\s]*([A-Z0-9\\-]+)", flags |-> "i",
       pre |-> Cat(<<Lit("lic"), Star(Cls(SpaceSet \cup {":"}))>>),
       cap |-> Plus(Cls(UpperSet \cup DigitSet \cup {"-"})),
       post |-> Cat(<<>>)],
      [source |-> "permit[:\\s]*([A-Z0-9\\-]+)", flags |-> "i",
       pre |-> Cat(<<Lit("permit"), Star(Cls(SpaceSet \cup {":"}))>>),
       cap |-> Plus(Cls(UpperSet \cup DigitSet \cup {"-"})),
       post |-> Cat(<<>>)]>>],
   [fieldType |-> "deaNumber", patterns |-> <<
      [source |-> "dea[:\\s]*([A-Z0-9\\-]+)", flags |-> "i",
       pre |-> Cat(<<Lit("dea"), Star(Cls(SpaceSet \cup {":"}))>>),
       cap |-> Plus(Cls(UpperSet \cup DigitSet \cup {"-"})),
       post |-> Cat(<<>>)],
      [source |-> "dea\\s+number[:\\s]*([A-Z0-9\\-]+)", flags |-> "i",
       pre |-> Cat(<<Lit("dea"), Plus(Cls(SpaceSet)), Lit("number"), Star(Cls(SpaceSet \cup {":"}))>>),
       cap |-> Plus(Cls(UpperSet \cup DigitSet \cup {"-"})),
       post |-> Cat(<<>>)],
      [source |-> "drug\\s+enforcement[:\\s]*([A-Z0-9\\-]+)", flags |-> "i",
       pre |-> Cat(<<Lit("drug"), Plus(Cls(SpaceSet)), Lit("enforcement"), Star(Cls(SpaceSet \cup {":"}))>>),
       cap |-> Plus(Cls(UpperSet \cup DigitSet \cup {"-"})),
       post |-> Cat(<<>>)]>>],
   [fieldType |-> "taxId", patterns |-> <<
      [source |-> "tax\\s+id[:\\s]*([0-9\\-]+)", flags |-> "i",
       pre |-> Cat(<<Lit("tax"), Plus(Cls(SpaceSet)), Lit("id"), Star(Cls(SpaceSet \cup {":"}))>>),
       cap |-> Plus(Cls(DigitSet \cup {"-"})),
       post |-> Cat(<<>>)],
      [source |-> "ein[:\\s]*([0-9\\-]+)", flags |-> "i",
       pre |-> Cat(<<Lit("ein"), Star(Cls(SpaceSet \cup {":"}))>>),
       cap |-> Plus(Cls(DigitSet \cup {"-"})),
       post |-> Cat(<<>>)],
      [source |-> "federal\\s+id[:\\s]*([0-9\\-]+)", flags |-> "i",
       pre |-> Cat(<<Lit("federal"), Plus(Cls(SpaceSet)), Lit("id"), Star(Cls(SpaceSet \cup {":"}))>>),
       cap |-> Plus(Cls(DigitSet \cup {"-"})),
       post |-> Cat(<<>>)],
      [source |-> "tax\\s+number[:\\s]*([0-9\\-]+)", flags |-> "i",
       pre |-> Cat(<<Lit("tax"), Plus(Cls(SpaceSet)), Lit("number"), Star(Cls(SpaceSet \cup {":"}))>>),
       cap |-> Plus(Cls(DigitSet \cup {"-"})),
       post |-> Cat(<<>>)]>>],
   [fieldType |-> "npiNumber", patterns |-> <<
      [source |-> "npi[:\\s]*([0-9]+)", flags |-> "i",
       pre |-> Cat(<<Lit("npi"), Star(Cls(SpaceSet \cup {":"}))>>),
       cap |-> Plus(Cls(DigitSet)),
       post |-> Cat(<<>>)],
      [source |-> "npi\\s+number[:\\s]*([0-9]+)", flags |-> "i",
       pre |-> Cat(<<Lit("npi"), Plus(Cls(SpaceSet)), Lit("number"), Star(Cls(SpaceSet \cup {":"}))>>),
       cap |-> Plus(Cls(DigitSet)),
       post |-> Cat(<<>>)],
      [source |-> "national\\s+provider[:\\s]*([0-9]+)", flags |-> "i",
       pre |-> Cat(<<Lit("national"), Plus(Cls(SpaceSet)), Lit("provider"), Star(Cls(SpaceSet \cup {":"}))>>),
       cap |-> Plus(Cls(DigitSet)),
       post |-> Cat(<<>>)]>>],
   [fieldType |-> "coordinator", patterns |-> <<
      [source |-> "coordinator[:\\s]*([^,\\n]+)", flags |-> "i",
       pre |-> Cat(<<Lit("coordinator"), Star(Cls(SpaceSet \cup {":"}))>>),
       cap |-> Plus(NotCls({",", "\n"})),
       post |-> Cat(<<>>)],
      [source |-> "study\\s+coordinator[:\\s]*([^,\\n]+)", flags |-> "i",
       pre |-> Cat(<<Lit("study"), Plus(Cls(SpaceSet)), Lit("coordinator"), Star(Cls(SpaceSet \cup {":"}))>>),
       cap |-> Plus(NotCls({",", "\n"})),
       post |-> Cat(<<>>)],
      [source |-> "research\\s+coordinator[:\\s]*([^,\\n]+)", flags |-> "i",
       pre |-> Cat(<<Lit("research"), Plus(Cls(SpaceSet)), Lit("coordinator"), Star(Cls(SpaceSet \cup {":"}))>>),
       cap |-> Plus(NotCls({",", "\n"})),
       post |-> Cat(<<>>)],
      [source |-> "clinical\\s+coordinator[:\\s]*([^,\\n]+)", flags |-> "i",
       pre |-> Cat(<<Lit("clinical"), Plus(Cls(SpaceSet)), Lit("coordinator"), Star(Cls(SpaceSet \cup {":"}))>>),
       cap |-> Plus(NotCls({",", "\n"})),
       post |-> Cat(<<>>)],
      [source |-> "trial\\s+coordinator[:\\s]*([^,\\n]+)", flags |-> "i",
       pre |-> Cat(<<Lit("trial"), Plus(Cls(SpaceSet)), Lit("coordinator"), Star(Cls(SpaceSet \cup {":"}))>>),
       cap |-> Plus(NotCls({",", "\n"})),
       post |-> Cat(<<>>)]>>],
   [fieldType |-> "subInvestigator", patterns |-> <<
      [source |-> "sub[:\\s]*investigator[:\\s]*([^,\\n]+)", flags |-> "i",
       pre |-> Cat(<<Lit("sub"), Star(Cls(SpaceSet \cup {":"})), Lit("investigator"), Star(Cls(SpaceSet \cup {":"}))>>),
       cap |-> Plus(NotCls({",", "\n"})),
       post |-> Cat(<<>>)],
      [source |-> "co[:\\s]*investigator[:\\s]*([^,\\n]+)", flags |-> "i",
       pre |-> Cat(<<Lit("co"), Star(Cls(SpaceSet \cup {":"})), Lit("investigator"), Star(Cls(SpaceSet \cup {":"}))>>),
       cap |-> Plus(NotCls({",", "\n"})),
       post |-> Cat(<<>>)],
      [source |-> "associate[:\\s]*investigator[:\\s]*([^,\\n]+)", flags |-> "i",
       pre |-> Cat(<<Lit("associate"), Star(Cls(SpaceSet \cup {":"})), Lit("investigator"), Star(Cls(SpaceSet \cup {":"}))>>),
       cap |-> Plus(NotCls({",", "\n"})),
       post |-> Cat(<<>>)],
      [source |-> "assistant[:\\s]*investigator[:\\s]*([^,\\n]+)", flags |-> "i",
       pre |-> Cat(<<Lit("assistant"), Star(Cls(SpaceSet \cup {":"})), Lit("investigator"), Star(Cls(SpaceSet \cup {":"}))>>),
       cap |-> Plus(NotCls({",", "\n"})),
       post |-> Cat(<<>>)]>>],
   [fieldType |-> "title", patterns |-> <<
      [source |-> "title[:\\s]*([^,\\n]+)", flags |-> "i",
       pre |-> Cat(<<Lit("title"), Star(Cls(SpaceSet \cup {":"}))>>),
       cap |-> Plus(NotCls({",", "\n"})),
       post |-> Cat(<<>>)],
      [source |-> "position[:\\s]*([^,\\n]+)", flags |-> "i",
       pre |-> Cat(<<Lit("position"), Star(Cls(SpaceSet \cup {":"}))>>),
       cap |-> Plus(NotCls({",", "\n"})),
       post |-> Cat(<<>>)],
      [source |-> "role[:\\s]*([^,\\n]+)", flags |-> "i",
       pre |-> Cat(<<Lit("role"), Star(Cls(SpaceSet \cup {":"}))>>),
       cap |-> Plus(NotCls({",", "\n"})),
       post |-> Cat(<<>>)],
      [source |-> "designation[:\\s]*([^,\\n]+)", flags |-> "i",
       pre |-> Cat(<<Lit("designation"), Star(Cls(SpaceSet \cup {":"}))>>),
       cap |-> Plus(NotCls({",", "\n"})),
       post |-> Cat(<<>>)]>>],
   [fieldType |-> "website", patterns |-> <<
      [source |-> "website[:\\s]*([^\\s\\n]+)", flags |-> "i",
       pre |-> Cat(<<Lit("website"), Star(Cls(SpaceSet \cup {":"}))>>),
       cap |-> Plus(NotCls(SpaceSet \cup {"\n"})),
       post |-> Cat(<<>>)],
      [source |-> "url[:\\s]*([^\\s\\n]+)", flags |-> "i",
       pre |-> Cat(<<Lit("url"), Star(Cls(SpaceSet \cup {":"}))>>),
       cap |-> Plus(NotCls(SpaceSet \cup {"\n"})),
       post |-> Cat(<<>>)],
      [source |-> "(https?:\\/\\/[^\\s\\n]+)", flags |-> "i",
       pre |-> Cat(<<>>),
       cap |-> Cat(<<Lit("http"), Opt(Lit("s")), Lit("://"), Plus(NotCls(SpaceSet \cup {"\n"}))>>),
       post |-> Cat(<<>>)]>>],
   [fieldType |-> "specialty", patterns |-> <<
      [source |-> "specialty[:\\s]*([^,\\n]+)", flags |-> "i",
       pre |-> Cat(<<Lit("specialty"), Star(Cls(SpaceSet \cup {":"}))>>),
       cap |-> Plus(NotCls({",", "\n"})),
       post |-> Cat(<<>>)],
      [source |-> "specialization[:\\s]*([^,\\n]+)", flags |-> "i",
       pre |-> Cat(<<Lit("specialization"), Star(Cls(SpaceSet \cup {":"}))>>),
       cap |-> Plus(NotCls({",", "\n"})),
       post |-> Cat(<<>>)],
      [source |-> "focus[:\\s]*([^,\\n]+)", flags |-> "i",
       pre |-> Cat(<<Lit("focus"), Star(Cls(SpaceSet \cup {":"}))>>),
       cap |-> Plus(NotCls({",", "\n"})),
       post |-> Cat(<<>>)]>>]
  >>


\* lines 589-603 (ConfidenceCalculator), in thousandths; match is the list
\* of at most one match that Match returns
PatternConfidenceSum(pattern, match) ==
  LET group == match[1].group
      shape == (IF Includes(pattern.source, "\\d") THEN 200 ELSE 0)
               + (IF Includes(pattern.source, "+") THEN 100 ELSE 0)
               + (IF Includes(pattern.source, "[A-Z]") THEN 100 ELSE 0)
               - (IF Includes(pattern.flags, "i") THEN 50 ELSE 0)
      length == (IF Len(group) > 3 THEN 100 ELSE 0)
                + (IF Len(group) > 10 THEN 100 ELSE 0)
  IN 500 + shape + length

calculatePatternConfidence(pattern, match) ==
  Min(PatternConfidenceSum(pattern, match), 1000)

\* extracted[fieldType], for the list of entries that models the object
Has(extracted, fieldType) ==
  \E k \in DOMAIN extracted : extracted[k].fieldType = fieldType

\* lines 605-610: totalConfidence / mappings.length as the pair of the two,
\* and 0 as <<0, 1>>
RECURSIVE SumConfidence(_)
SumConfidence(mappings) ==
  IF mappings = <<>> THEN 0
  ELSE Head(mappings).confidence + SumConfidence(Tail(mappings))

calculateOverallConfidence_NoEmptyCase(mappings) ==
  <<SumConfidence(mappings), Len(mappings)>>

calculateOverallConfidence(mappings) ==
  IF Len(mappings) = 0 THEN <<0, 1>>
  ELSE <<SumConfidence(mappings), Len(mappings)>>

RECURSIVE FirstPatternMatch_LastWins(_, _, _)
FirstPatternMatch_LastWins(patterns, k, text) ==
  IF k > Len(patterns) THEN <<>>
  ELSE Only({IF later # <<>> \/ match = <<>> THEN later
             ELSE <<[value |-> IF match[1].group # "" THEN Trim(match[1].group)
                               ELSE Trim(match[1].all),
                     confidence |-> calculatePatternConfidence(patterns[k], match),
                     pattern |-> patterns[k].source,
                     method |-> "regex"]>> :
               match \in {Match(patterns[k], text)},
               later \in {FirstPatternMatch_LastWins(patterns, k + 1, text)}})

\* lines 264-275: the first pattern of the list that matches, from pattern k
RECURSIVE FirstPatternMatch(_, _, _)
FirstPatternMatch(patterns, k, text) ==
  IF k > Len(patterns) THEN <<>>
  ELSE Only({IF match # <<>>
             THEN <<[value |-> IF match[1].group # "" THEN Trim(match[1].group)
                               ELSE Trim(match[1].all),
                     confidence |-> calculatePatternConfidence(patterns[k], match),
                     pattern |-> patterns[k].source,
                     method |-> "regex"]>>
             ELSE FirstPatternMatch(patterns, k + 1, text) :
               match \in {Match(patterns[k], text)}})

\* lines 263-276: the first pass, from type n of the library
RECURSIVE StrictPass(_, _)
StrictPass(n, text) ==
  IF n > Len(fieldPatterns) THEN <<>>
  ELSE Only({IF m # <<>>
             THEN <<[fieldType |-> fieldPatterns[n].fieldType,
                     value |-> m[1].value, confidence |-> m[1].confidence,
                     pattern |-> m[1].pattern, method |-> m[1].method]>>
                    \o StrictPass(n + 1, text)
             ELSE StrictPass(n + 1, text) :
               m \in {FirstPatternMatch(fieldPatterns[n].patterns, 1, text)}})

\* the position of the first line break at or after start, or Len(text) + 1
NextBreak(text, start) ==
  CHOOSE k \in start..(Len(text) + 1) :
    /\ k = Len(text) + 1 \/ CharAt(text, k) = "\n"
    /\ \A n \in start..(k - 1) : CharAt(text, n) # "\n"

\* String.prototype.split('\n'), for the part of text from start on
RECURSIVE SplitFrom(_, _)
SplitFrom(text, start) ==
  IF start > Len(text) THEN <<"">>
  ELSE Only({<<SubSeq(text, start, j - 1)>>
               \o (IF j > Len(text) THEN <<>> ELSE SplitFrom(text, j + 1)) :
               j \in {NextBreak(text, start)}})

\* line 285
Lines(text) ==
  Only({SelectSeq([k \in DOMAIN parts |-> Trim(parts[k])],
                  LAMBDA line : Len(line) > 0) :
          parts \in {Only({SplitFrom(t, 1) : t \in {text}})}})

\* lines 336-382
getFieldMapping(key) ==
  LET mappings ==
        << <<"name", "fullName">>, <<"full name", "fullName">>,
           <<"contact name", "fullName">>, <<"first name", "firstName">>,
           <<"last name", "lastName">>, <<"email", "email">>,
           <<"e-mail", "email">>, <<"mail", "email">>, <<"phone", "phone">>,
           <<"telephone", "phone">>, <<"tel", "phone">>,
           <<"mobile", "phone">>, <<"cell", "phone">>, <<"fax", "fax">>,
           <<"address", "address">>, <<"street", "address">>,
           <<"location", "address">>, <<"city", "city">>,
           <<"state", "state">>, <<"zip", "zipCode">>,
           <<"postal", "zipCode">>, <<"country", "country">>,
           <<"institution", "institutionName">>,
           <<"hospital", "institutionName">>,
           <<"organization", "institutionName">>,
           <<"company", "institutionName">>,
           <<"department", "department">>, <<"dept", "department">>,
           <<"title", "title">>, <<"position", "title">>,
           <<"role", "title">>, <<"coordinator", "coordinator">>,
           <<"investigator", "principalInvestigator">>,
           <<"pi", "principalInvestigator">>,
           <<"doctor", "principalInvestigator">>,
           <<"license", "licenseNumber">>, <<"dea", "deaNumber">>,
           <<"tax id", "taxId">>, <<"ein", "taxId">>, <<"npi", "npiNumber">>,
           <<"website", "website">>, <<"url", "website">>,
           <<"specialty", "specialty">> >>
  IN Only({IF hits = <<>> THEN <<>> ELSE <<hits[1][2]>> :
             hits \in {Only({SelectSeq(mappings, LAMBDA m : m[1] = k) :
                               k \in {key}})}})

\* line 289: line.match(/^([^:]+):\s*(.+)$/) on a trimmed line without line
\* breaks, as [key |-> match[1], value |-> match[2]] in a list of at most
\* one: the key runs to the first colon and is not empty; white space after
\* the colon is skipped; the value is the rest and is not empty
colonMatch(line) ==
  IF ~Includes(line, ":") THEN <<>>
  ELSE Only({IF c = 1 \/ rest = "" THEN <<>>
             ELSE <<[key |-> SubSeq(line, 1, c - 1), value |-> rest]>> :
               c \in {CHOOSE i \in 1..Len(line) :
                        /\ CharAt(line, i) = ":"
                        /\ \A j \in 1..(i - 1) : CharAt(line, j) # ":"},
               rest \in {TrimLeft(SubSeq(line,
                            1 + (CHOOSE i \in 1..Len(line) :
                                   /\ CharAt(line, i) = ":"
                                   /\ \A j \in 1..(i - 1) : CharAt(line, j) # ":"),
                            Len(line)))}})

standaloneEmail ==
  [source |-> "([a-zA-Z0-9._%+-]+@[a-zA-Z0-9.-]+\\.[a-zA-Z]{2,})", flags |-> "",
   pre |-> Cat(<<>>),
   cap |-> Cat(<<Plus(Cls(LowerSet \cup UpperSet \cup DigitSet \cup {".", "_", "%", "+", "-"})),
                 Lit("@"),
                 Plus(Cls(LowerSet \cup UpperSet \cup DigitSet \cup {".", "-"})),
                 Lit("."), Rep(Cls(LowerSet \cup UpperSet), 2, -1)>>),
   post |-> Cat(<<>>)]

standalonePhone ==
  [source |-> "(\\(?[\\d\\s\\-\\.\\(\\)]{10,})", flags |-> "",
   pre |-> Cat(<<>>),
   cap |-> Cat(<<Opt(Lit("(")),
                 Rep(Cls(DigitSet \cup SpaceSet \cup {"-", ".", "(", ")"}), 10, -1)>>),
   post |-> Cat(<<>>)]

\* phoneMatch[1].replace(/\D/g, '').length
DigitCount(str) == Cardinality({i \in 1..Len(str) : CharAt(str, i) \in DigitSet})

Entry(fieldType, value, confidence, pattern) ==
  [fieldType |-> fieldType, value |-> value, confidence |-> confidence,
   pattern |-> pattern, method |-> "flexible"]

WithColon_Unguarded(line, extracted) ==
  Only({IF m # <<>> /\ getFieldMapping(toLowerCase(Trim(m[1].key))) # <<>>
        THEN Append(extracted,
                    Entry(getFieldMapping(toLowerCase(Trim(m[1].key)))[1],
                          Trim(m[1].value), 700, "flexible_colon"))
        ELSE extracted :
          m \in {colonMatch(line)}})

WithColon_Overwrites(line, extracted) ==
  Only({IF m = <<>> THEN extracted
        ELSE Only({IF Len(value) > 0 /\ Len(value) < 200 /\ fieldMapping # <<>>
                   THEN IF Has(extracted, fieldMapping[1])
                        THEN [k \in DOMAIN extracted |->
                                IF extracted[k].fieldType = fieldMapping[1]
                                THEN Entry(fieldMapping[1], value, 700, "flexible_colon")
                                ELSE extracted[k]]
                        ELSE Append(extracted,
                                    Entry(fieldMapping[1], value, 700, "flexible_colon"))
                   ELSE extracted :
                     value \in {Trim(m[1].value)},
                     fieldMapping \in {getFieldMapping(toLowerCase(Trim(m[1].key)))}}) :
          m \in {colonMatch(line)}})

\* lines 289-306: the key:value part of the work on one line
WithColon(line, extracted) ==
  Only({IF m = <<>> THEN extracted
        ELSE Only({IF Len(value) > 0 /\ Len(value) < 200
                      /\ fieldMapping # <<>> /\ ~Has(extracted, fieldMapping[1])
                   THEN Append(extracted,
                               Entry(fieldMapping[1], value, 700, "flexible_colon"))
                   ELSE extracted :
                     value \in {Trim(m[1].value)},
                     fieldMapping \in {getFieldMapping(toLowerCase(Trim(m[1].key)))}}) :
          m \in {colonMatch(line)}})

\* lines 309-319
WithEmail(line, extracted) ==
  IF Has(extracted, "email") THEN extracted
  ELSE Only({IF emailMatch # <<>>
             THEN Append(extracted, Entry("email", emailMatch[1].group, 900,
                                          "standalone_email"))
             ELSE extracted :
               emailMatch \in {Match(standaloneEmail, line)}})

\* lines 321-331
WithPhone(line, extracted) ==
  IF Has(extracted, "phone") THEN extracted
  ELSE Only({IF phoneMatch # <<>> /\ DigitCount(phoneMatch[1].group) >= 10
             THEN Append(extracted, Entry("phone", phoneMatch[1].group, 800,
                                          "standalone_phone"))
             ELSE extracted :
               phoneMatch \in {Match(standalonePhone, line)}})

\* lines 287-332: the loop over the lines, from line k
RECURSIVE FlexibleFrom(_, _, _)
FlexibleFrom(lines, k, extracted) ==
  IF k > Len(lines) THEN extracted
  ELSE Only({FlexibleFrom(lines, k + 1, withPhone) :
               withPhone \in
                 {Only({WithPhone(lines[k], withEmail) :
                          withEmail \in
                            {Only({WithEmail(lines[k], withColon) :
                                     withColon \in
                                       {WithColon(lines[k], extracted)}})}})}})

\* lines 284-333
extractFlexiblePatterns(text, extracted) ==
  Only({FlexibleFrom(lines, 1, before) :
          lines \in {Lines(text)}, before \in {extracted}})

extractStructuredData_FlexibleFirst(unstructuredData) ==
  Only({flexible \o SelectSeq(strict, LAMBDA e : ~Has(flexible, e.fieldType)) :
          flexible \in {extractFlexiblePatterns(unstructuredData, <<>>)},
          strict \in {Only({StrictPass(1, t) : t \in {unstructuredData}})}})

\* lines 259-282: the entries of the object `extracted`, in insertion order
extractStructuredData(unstructuredData) ==
  Only({extractFlexiblePatterns(text, extracted) :
          text \in {unstructuredData},
          extracted \in {Only({StrictPass(1, t) : t \in {unstructuredData}})}})

(***************************************************************************)
(* AIProcessor: matching (src/background.js).                              *)
(*                                                                         *)
(* Scores are exact sums in thousandths.  The source adds IEEE doubles,    *)
(* whose rounding error (about 1e-16) the model does not carry; no score   *)
(* the tables can produce lies on the threshold 0.15.                      *)
(***************************************************************************)
\* lines 458-483
keywords ==
  [principalInvestigator |-> <<"investigator", "pi", "principal", "doctor",
                               "dr", "physician", "md", "phd">>,
   firstName |-> <<"first", "fname", "given", "forename">>,
   lastName |-> <<"last", "lname", "surname", "family", "lastname">>,
   fullName |-> <<"name", "fullname", "contact", "person", "individual">>,
   phone |-> <<"phone", "tel", "telephone", "contact", "mobile", "cell",
               "number">>,
   email |-> <<"email", "mail", "contact", "@">>,
   fax |-> <<"fax", "facsimile">>,
   address |-> <<"address", "street", "location", "addr", "avenue", "road",
                 "drive", "lane">>,
   city |-> <<"city", "town", "municipality">>,
   state |-> <<"state", "province", "region">>,
   zipCode |-> <<"zip", "postal", "code", "postcode">>,
   country |-> <<"country", "nation">>,
   institutionName |-> <<"institution", "hospital", "center", "clinic",
                         "organization", "org", "company", "university",
                         "college">>,
   department |-> <<"department", "dept", "division", "unit", "section">>,
   coordinator |-> <<"coordinator", "manager", "admin", "assistant">>,
   licenseNumber |-> <<"license", "licence", "lic", "permit",
                       "certification", "cert">>,
   deaNumber |-> <<"dea", "drug", "enforcement">>,
   taxId |-> <<"tax", "ein", "federal", "employer">>,
   npiNumber |-> <<"npi", "provider", "national">>,
   title |-> <<"title", "position", "role", "job", "designation">>,
   specialty |-> <<"specialty", "specialization", "focus", "area">>,
   website |-> <<"website", "url", "site", "web", "http">>,
   irbContact |-> <<"irb", "review", "board", "ethics", "committee">>,
   subInvestigator |-> <<"sub", "co", "associate", "assistant",
                         "secondary">>]

\* lines 506-514
abbreviations ==
  [firstName |-> <<"fn", "f_name", "firstname">>,
   lastName |-> <<"ln", "l_name", "lastname">>,
   email |-> <<"e_mail", "email_address", "mail_address">>,
   phone |-> <<"ph", "tel_no", "phone_no", "contact_no">>,
   address |-> <<"addr", "address_1", "address1", "street_addr">>,
   zipCode |-> <<"zip_code", "postal_code", "postcode">>,
   institutionName |-> <<"inst", "hosp", "org_name", "company_name">>]

\* lines 442-450
categoryMappings ==
  [email |-> <<"email">>,
   phone |-> <<"phone", "fax">>,
   name |-> <<"firstName", "lastName", "fullName", "principalInvestigator">>,
   address |-> <<"address", "city", "state", "zipCode", "country">>,
   organization |-> <<"institutionName", "department">>,
   title |-> <<"title", "specialty">>,
   identifier |-> <<"licenseNumber", "deaNumber", "taxId", "npiNumber">>]

\* obj[key] || []
Lookup(table, key) == IF key \in DOMAIN table THEN table[key] ELSE <<>>

\* lines 441-454
categoryMatches(fieldCategory, dataType) ==
  dataType \in Range(Lookup(categoryMappings, fieldCategory))

\* lines 536-573, in tenths; the key any stands for the wildcard key '*'
compatibility ==
  [email |-> [email |-> 10, fullName |-> 3],
   tel |-> [phone |-> 10, fax |-> 9, npiNumber |-> 7, licenseNumber |-> 6],
   text |-> [any |-> 9],
   textarea |-> [address |-> 10, specialty |-> 9, any |-> 7],
   number |-> [zipCode |-> 10, npiNumber |-> 9, licenseNumber |-> 8,
               taxId |-> 8, deaNumber |-> 7],
   url |-> [website |-> 10, email |-> 3],
   date |-> [any |-> 2],
   input |-> [any |-> 8]]

\* lines 575-578: compatibility[formFieldType] || compatibility['input'],
\* then fieldCompat[dataType] || fieldCompat['*'] || 0.4.  The default of
\* line 576 is never taken, compatibility['input'] being defined.
getTypeCompatibility(formFieldType, dataType) ==
  LET fieldCompat == IF formFieldType \in DOMAIN compatibility
                     THEN compatibility[formFieldType]
                     ELSE compatibility["input"]
  IN IF dataType \in DOMAIN fieldCompat THEN fieldCompat[dataType]
     ELSE IF "any" \in DOMAIN fieldCompat THEN fieldCompat["any"]
     ELSE 4

RawMatchScore_AddsCompatibility(fieldText, dataType, fieldType, fieldCategory) ==
  LET dataKeywords == Lookup(keywords, dataType)
      abbrevs == Lookup(abbreviations, dataType)
      keywordScore ==
        400 * Cardinality({i \in DOMAIN dataKeywords :
                             Includes(fieldText, dataKeywords[i])})
        + 200 * Cardinality({i \in DOMAIN dataKeywords :
                               /\ Includes(fieldText, dataKeywords[i])
                               /\ WordTest(fieldText, dataKeywords[i])})
      exactScore == IF Includes(fieldText, toLowerCase(dataType)) THEN 600 ELSE 0
      abbrevScore ==
        300 * Cardinality({i \in DOMAIN abbrevs : Includes(fieldText, abbrevs[i])})
      typed == keywordScore + exactScore + abbrevScore
                 + 100 * getTypeCompatibility(fieldType, dataType)
  IN typed + (IF categoryMatches(fieldCategory, dataType) THEN 200 ELSE 0)

\* lines 485-530: the score before it is capped
RawMatchScore(fieldText, dataType, fieldType, fieldCategory) ==
  LET dataKeywords == Lookup(keywords, dataType)
      abbrevs == Lookup(abbreviations, dataType)
      keywordScore ==
        400 * Cardinality({i \in DOMAIN dataKeywords :
                             Includes(fieldText, dataKeywords[i])})
        + 200 * Cardinality({i \in DOMAIN dataKeywords :
                               /\ Includes(fieldText, dataKeywords[i])
                               /\ WordTest(fieldText, dataKeywords[i])})
      exactScore == IF Includes(fieldText, toLowerCase(dataType)) THEN 600 ELSE 0
      abbrevScore ==
        300 * Cardinality({i \in DOMAIN abbrevs : Includes(fieldText, abbrevs[i])})
      typed == ((keywordScore + exactScore + abbrevScore)
                  * getTypeCompatibility(fieldType, dataType)) \div 10
  IN typed + (IF categoryMatches(fieldCategory, dataType) THEN 200 ELSE 0)

\* lines 456-533: Math.min(score, 1.0)
calculateFieldMatchScore(fieldText, dataType, fieldType, fieldCategory) ==
  Min(RawMatchScore(fieldText, dataType, fieldType, fieldCategory), 1000)

\* a JavaScript value is missing (undefined, null or the empty string)
Falsy(v) == v = Undefined \/ v = ""

\* v || w
OrElse(v, w) == IF Falsy(v) THEN w ELSE v

\* v ? v.toLowerCase() : ''
LowerOrEmpty(v) == IF Falsy(v) THEN "" ELSE toLowerCase(v)

\* lines 406-414: name.toLowerCase() and id.toLowerCase() throw a TypeError
\* when the descriptor has no name or no id
MatchThrows(formField) == formField.name = Undefined \/ formField.id = Undefined

FieldText(formField) ==
  toLowerCase(formField.name) \o " " \o toLowerCase(formField.id) \o " "
    \o LowerOrEmpty(formField.label) \o " "
    \o LowerOrEmpty(formField.context) \o " "
    \o OrElse(formField.searchText, "")

\* lines 420-425: the score of one extracted type, category boost included
BoostedScore(formField, dataType) ==
  Only({calculateFieldMatchScore(fieldText, dataType, formField.type, fieldCategory)
          + (IF categoryMatches(fieldCategory, dataType) THEN 300 ELSE 0) :
          fieldText \in {FieldText(formField)},
          fieldCategory \in {OrElse(formField.fieldCategory, "general")}})

minScore == 150

RECURSIVE BestFrom_LaterEqualWins(_, _, _, _, _)
BestFrom_LaterEqualWins(formField, extractedData, k, bestMatch, highestScore) ==
  IF k > Len(extractedData) THEN bestMatch
  ELSE Only({IF score >= highestScore /\ score > minScore
             THEN BestFrom_LaterEqualWins(formField, extractedData, k + 1,
                    <<[extractedData[k] EXCEPT !.confidence = score]>>, score)
             ELSE BestFrom_LaterEqualWins(formField, extractedData, k + 1,
                                          bestMatch, highestScore) :
               score \in {BoostedScore(formField, extractedData[k].fieldType)}})

\* lines 416-436: the loop over Object.entries(extractedData), from entry k
\* on, with the best match (a list of at most one) and its score so far
RECURSIVE BestFrom(_, _, _, _, _)
BestFrom(formField, extractedData, k, bestMatch, highestScore) ==
  IF k > Len(extractedData) THEN bestMatch
  ELSE Only({IF score > highestScore /\ score > minScore
             THEN BestFrom(formField, extractedData, k + 1,
                           <<[extractedData[k] EXCEPT !.confidence = score]>>, score)
             ELSE BestFrom(formField, extractedData, k + 1, bestMatch,
                           highestScore) :
               score \in {BoostedScore(formField, extractedData[k].fieldType)}})

findBestMatch_FirstAbove(formField, extractedData) ==
  LET above == SelectSeq(extractedData, LAMBDA d :
                 BoostedScore(formField, d.fieldType) > minScore)
  IN IF above = <<>> THEN <<>>
     ELSE <<[above[1] EXCEPT !.confidence =
               BoostedScore(formField, above[1].fieldType)]>>

findBestMatch_NoThreshold(formField, extractedData) ==
  LET scored == [k \in DOMAIN extractedData |->
                   [extractedData[k] EXCEPT !.confidence =
                      BoostedScore(formField, extractedData[k].fieldType)]]
      top == SelectSeq(scored, LAMBDA d :
               \A e \in Range(scored) : e.confidence <= d.confidence)
  IN IF top = <<>> THEN <<>> ELSE <<top[1]>>

\* lines 405-439; extractedData is the list of the entries of the object in
\* insertion order, each with its key as fieldType; the result is a list of
\* at most one match (null when empty)
findBestMatch(formField, extractedData) ==
  BestFrom(formField, extractedData, 1, <<>>, 0)

\* lines 391-398
Mapping(field, bestMatch) ==
  [fieldId |-> field.id, fieldName |-> field.name, fieldType |-> field.type,
   mappedValue |-> bestMatch.value, confidence |-> bestMatch.confidence,
   extractedFrom |-> bestMatch.fieldType]

\* lines 388-400: the loop over the fields, from field k
RECURSIVE MappingsFrom(_, _, _)
MappingsFrom(formFields, k, extractedData) ==
  IF k > Len(formFields) THEN <<>>
  ELSE Only({IF bestMatch # <<>>
             THEN <<Mapping(formFields[k], bestMatch[1])>>
                    \o MappingsFrom(formFields, k + 1, extractedData)
             ELSE MappingsFrom(formFields, k + 1, extractedData) :
               bestMatch \in {findBestMatch(formFields[k], extractedData)}})

\* lines 385-403: the list of mappings, or the TypeError of findBestMatch,
\* which ends the loop at the first descriptor that lacks name or id
generateFieldMappings(formFields, extractedData) ==
  IF \E i \in DOMAIN formFields : MatchThrows(formFields[i])
  THEN [threw |-> TRUE, mappings |-> <<>>]
  ELSE [threw |-> FALSE,
        mappings |-> Only({MappingsFrom(fields, 1, data) :
                             fields \in {formFields}, data \in {extractedData}})]

(***************************************************************************)
(* LearningSystem (src/background.js).                                     *)
(***************************************************************************)

\* interactions.filter(i => i.wasCorrect).length / interactions.length
calculateSiteAccuracy_CountsAll(ints) ==
  IF Len(ints) = 0 THEN <<0, 1>> ELSE <<Len(ints), Len(ints)>>

calculateSiteAccuracy(ints) ==
  IF Len(ints) = 0 THEN <<0, 1>>
  ELSE <<Cardinality({i \in DOMAIN ints : ints[i].wasCorrect}), Len(ints)>>

\* the values extractCommonPatterns counts: strings longer than 3
Counted(values) == SelectSeq(values, LAMBDA v : Len(v) > 3)

\* keys of the `prefixes` object in insertion order
RECURSIVE PrefixKeys(_)
PrefixKeys(values) ==
  IF values = <<>> THEN <<>>
  ELSE LET rest == PrefixKeys(SubSeq(values, 1, Len(values) - 1))
           p == SubSeq(values[Len(values)], 1, 3)
       IN IF p \in Range(rest) THEN rest ELSE Append(rest, p)

\* only the prefix table is turned into patterns; the suffix table is
\* filled and then dropped
extractCommonPatterns(values) ==
  LET vs == Counted(values)
      count(p) == Cardinality({i \in DOMAIN vs : SubSeq(vs[i], 1, 3) = p})
      keys == SelectSeq(PrefixKeys(vs), LAMBDA p : count(p) >= 2)
  IN [i \in DOMAIN keys |->
        [type |-> "prefix", pattern |-> keys[i], frequency |-> count(keys[i])]]

updateSuccessPatterns(siteData, interaction) ==
  LET f == interaction.fieldId
      old == IF f \in DOMAIN siteData.patterns
             THEN siteData.patterns[f]
             ELSE [successfulValues |-> <<>>, commonPatterns |-> <<>>]
      vals == Append(old.successfulValues, interaction.actualValue)
      new == [successfulValues |-> vals,
              commonPatterns |-> IF Len(vals) >= 3
                                 THEN extractCommonPatterns(vals)
                                 ELSE old.commonPatterns]
  IN [siteData EXCEPT !.patterns = Put(siteData.patterns, f, new)]

\* lines 622-632: the record built from the message and the clock
InteractionRecord(interaction, id, time) ==
  [id |-> id, timestamp |-> time,
   siteId |-> interaction.siteId, fieldId |-> interaction.fieldId,
   predictedValue |-> interaction.predictedValue,
   actualValue |-> interaction.actualValue,
   wasCorrect |-> interaction.wasCorrect,
   userFeedback |-> interaction.userFeedback,
   confidence |-> interaction.confidence]

\* lines 639-655: what recordInteraction makes of the learningData it read
RecordInto(data, interaction, rec) ==
  LET s == interaction.siteId
      base == IF s \in DOMAIN data THEN data[s]
              ELSE [interactions |-> <<>>, patterns |-> EmptyObj,
                    accuracy |-> <<0, 1>>]
      ints == Append(base.interactions, rec)
      scored == [base EXCEPT !.interactions = ints,
                             !.accuracy = calculateSiteAccuracy(ints)]
  IN Put(data, s, IF interaction.wasCorrect
                  THEN updateSuccessPatterns(scored, interaction)
                  ELSE scored)


(***************************************************************************)
(* PrivacyManager (src/unnamed/part_001).                                  *)
(***************************************************************************)
dataRetentionPeriod == 365

\* new Date(site.lastUsed || site.createdAt).getTime()
SiteLastUsed(site) == IF site.lastUsed # NoTime THEN site.lastUsed ELSE site.createdAt

\* lines 2059-2065
FilterSites(sites, cutoffDate) ==
  SelectSeq(sites, LAMBDA site : SiteLastUsed(site) > cutoffDate)

CleanLearningData_KeepsOld(data, cutoffDate) ==
  LET old(s) == SelectSeq(data[s].interactions,
                          LAMBDA i : i.timestamp < cutoffDate)
      kept == {s \in DOMAIN data : Len(old(s)) > 0}
  IN [s \in kept |-> [data[s] EXCEPT !.interactions = old(s)]]

\* lines 2068-2082: a profile keeps its recent interactions, and is dropped
\* when none is recent; patterns and accuracy are copied as they are
CleanLearningData(data, cutoffDate) ==
  LET recent(s) == SelectSeq(data[s].interactions,
                             LAMBDA i : i.timestamp > cutoffDate)
      kept == {s \in DOMAIN data : Len(recent(s)) > 0}
  IN [s \in kept |-> [data[s] EXCEPT !.interactions = recent(s)]]

(***************************************************************************)
(* The state.                                                              *)
(***************************************************************************)
VARIABLES
  now,            \* Date.now(), in days
  ticks,          \* how often the clock has advanced
  nextId,         \* generateId: the next fresh identifier
  clinicalSites,  \* chrome.storage.local: clinicalSites
  learningData,   \* chrome.storage.local: learningData
  interactions,   \* LearningSystem.interactions
  calls,          \* the invocations of BackgroundService.handleMessage
  popup,          \* PopupManager: sites, currentSite, editingSiteId
  cleaner,        \* PrivacyManager.cleanOldData in progress
  created,        \* how many sites PopupManager.saveSite has created
  consent,        \* chrome.storage.local: userConsent, consentTimestamp
  revoking,       \* PrivacyManager.revokeConsent is between its awaits
  rateLimit,      \* chrome.storage.local: rateLimit_<operation>
  checks,         \* the invocations of SecurityManager.checkRateLimit
  content         \* the content script (FormFiller) and the fields of its page

vars == <<now, ticks, nextId, clinicalSites, learningData, interactions,
          calls, popup, cleaner, created, consent, revoking, rateLimit, checks,
          content>>

Null == "null"

SiteIdPool == <<"s1", "s2", "s3">>
SiteIds == Range(SiteIdPool)
FieldIds == {"f1"}

\* the interactions a content script or any other sender may post
Interactions ==
  {[siteId |-> s, fieldId |-> f, predictedValue |-> "abcd",
    actualValue |-> IF w THEN "abcd" ELSE "abxy", wasCorrect |-> w,
    userFeedback |-> "accepted", confidence |-> 800] :
     s \in {"s1", "s2", Undefined}, f \in FieldIds \cup {Undefined},
     w \in BOOLEAN}

\* the operations whose attempts are limited (exportUserData names the keys
\* rateLimit_login and rateLimit_decrypt)
Operations == {"login", "decrypt"}
CheckIds == 1..MaxChecks

\* the keys userConsent and consentTimestamp are absent
NoConsent == [userConsent |-> <<>>, consentTimestamp |-> NoTime]
\* no key rateLimit_<operation> is present: each reads as []
NoAttempts == [o \in Operations |-> <<>>]

IdleCall == [pc |-> "idle"]
IdleCleaner == [pc |-> "idle"]
\* a nullable reference is a sequence of at most one element
ClosedPopup ==
  [open |-> FALSE, loading |-> FALSE, sites |-> <<>>, currentSite |-> <<>>,
   editingSiteId |-> Null, modal |-> FALSE, writing |-> FALSE,
   toWrite |-> <<>>, deleted |-> Null]

\* the fields of the page, by the id of their element
ElementIds == {"phone", "age", "fullname", "email"}

\* a FormFiller after construction (part_001 lines 721-730) on a page whose
\* fields are empty: no timer of the form observer is pending, detectForms
\* has found the fields of the document, nothing was filled.  `clock` is
\* the time of the page in milliseconds, `batches` and `runs` are the
\* deliveries of the MutationObserver and the calls of detectForms so far,
\* `written` is what fillField assigned to element.value, `sent` are the
\* learnFromInteraction messages.
NewContent ==
  [clock |-> 0, timers |-> <<>>, batches |-> <<>>, runs |-> <<>>,
   dom |-> 0, detected |-> 0,
   isActive |-> FALSE, value |-> [e \in ElementIds |-> ""],
   filledFields |-> EmptyObj, written |-> EmptyObj, sent |-> <<>>,
   fills |-> 0, inputs |-> 0]

Init ==
  /\ now = 0
  /\ ticks = 0
  /\ nextId = 1
  /\ clinicalSites = <<>>
  /\ learningData = EmptyObj
  /\ interactions = <<>>
  /\ calls = [c \in CallIds |-> IdleCall]
  /\ popup = ClosedPopup
  /\ cleaner = IdleCleaner
  /\ created = 0
  /\ consent = NoConsent
  /\ revoking = FALSE
  /\ rateLimit = NoAttempts
  /\ checks = [k \in CheckIds |-> IdleCall]
  /\ content = NewContent

\* call slots are taken in order
Free(c) ==
  /\ calls[c].pc = "idle"
  /\ \A d \in CallIds : d < c => calls[d].pc # "idle"

\* an asynchronous operation is between two of its awaits
Busy ==
  \/ \E c \in CallIds : calls[c].pc \notin {"idle", "done"}
  \/ cleaner.pc # "idle"
  \/ popup.loading
  \/ popup.writing

Tick(d) ==
  /\ ticks < MaxTicks
  /\ now' = now + d
  /\ ticks' = ticks + 1
  /\ UNCHANGED <<nextId, clinicalSites, learningData, interactions, calls,
                 popup, cleaner, created,
                 consent, revoking, rateLimit, checks, content>>

(***************************************************************************)
(* BackgroundService.handleMessage: learnFromInteraction.                  *)
(***************************************************************************)

\* lines 41-42 and 619-638: the record is built and pushed onto the list in
\* memory, then the handler waits for storage.get
RecvLearn(c, interaction) ==
  /\ Free(c)
  /\ LET rec == InteractionRecord(interaction, nextId, now)
     IN /\ interactions' = Append(interactions, rec)
        /\ calls' = [calls EXCEPT ![c] =
             [pc |-> "awaitGet", action |-> "learnFromInteraction",
              interaction |-> interaction, rec |-> rec]]
  /\ nextId' = nextId + 1
  /\ UNCHANGED <<now, ticks, clinicalSites, learningData, popup, cleaner, created,
                 consent, revoking, rateLimit, checks, content>>

\* lines 638-657: storage.get resolves with a copy of learningData, the
\* handler updates the copy and hands it to storage.set
LearnGet(c) ==
  /\ calls[c].pc = "awaitGet"
  /\ calls[c].action = "learnFromInteraction"
  /\ calls' = [calls EXCEPT ![c] =
       [pc |-> "awaitSet", action |-> "learnFromInteraction",
        interaction |-> calls[c].interaction, rec |-> calls[c].rec,
        toWrite |-> RecordInto(learningData, calls[c].interaction, calls[c].rec)]]
  /\ UNCHANGED <<now, ticks, nextId, clinicalSites, learningData,
                 interactions, popup, cleaner, created,
                 consent, revoking, rateLimit, checks, content>>

\* lines 657 and 43: storage.set is applied and the sender is answered
LearnSet(c) ==
  /\ calls[c].pc = "awaitSet"
  /\ calls[c].action = "learnFromInteraction"
  /\ learningData' = calls[c].toWrite
  /\ calls' = [calls EXCEPT ![c] =
       [pc |-> "done", action |-> "learnFromInteraction",
        interaction |-> calls[c].interaction,
        response |-> [success |-> TRUE]]]
  /\ UNCHANGED <<now, ticks, nextId, clinicalSites, interactions, popup,
                 cleaner, created,
                 consent, revoking, rateLimit, checks, content>>

(***************************************************************************)
(* The content script's field descriptors (createFieldInfo): what the      *)
(* page's form elements become before they are posted to the background.   *)
(* An element is the record of the properties the code reads: id, name,    *)
(* type, placeholder and className, with the label and the context that    *)
(* getFieldLabel and getFieldContext find around it in the document; the   *)
(* attributes data-label, aria-label and title are absent.                 *)
(***************************************************************************)
\* Array.prototype.join(' ')
RECURSIVE JoinFrom(_, _)
JoinFrom(parts, k) ==
  IF k > Len(parts) THEN ""
  ELSE parts[k] \o (IF k < Len(parts) THEN " " ELSE "") \o JoinFrom(parts, k + 1)

\* .replace(/[^a-z0-9\s]/g, ' ')
RECURSIVE ReplaceSymbolsFrom(_, _)
ReplaceSymbolsFrom(s, k) ==
  IF k > Len(s) THEN ""
  ELSE (IF CharAt(s, k) \in LowerSet \cup DigitSet \cup SpaceSet
        THEN CharAt(s, k) ELSE " ") \o ReplaceSymbolsFrom(s, k + 1)

\* .replace(/\s+/g, ' ')
RECURSIVE CollapseSpacesFrom(_, _)
CollapseSpacesFrom(s, k) ==
  IF k > Len(s) THEN ""
  ELSE (IF CharAt(s, k) \notin SpaceSet THEN CharAt(s, k)
        ELSE IF k > 1 /\ CharAt(s, k - 1) \in SpaceSet THEN "" ELSE " ")
       \o CollapseSpacesFrom(s, k + 1)

\* part_001 lines 894-914
buildSearchText(element, label, context) ==
  Only({Only({Trim(CollapseSpacesFrom(replaced, 1)) :
                replaced \in {ReplaceSymbolsFrom(lowered, 1)}}) :
          lowered \in {toLowerCase(JoinFrom(
            SelectSeq(<<element.name, element.id, element.placeholder, label,
                        context, element.className>>,
                      LAMBDA part : ~Blank(part)), 1))}})

\* /a|b|c/.test(text) for alternatives without metacharacters
IncludesAny(text, parts) == \E part \in parts : Includes(text, part)

\* part_001 lines 917-964
categorizeField(element, label, context) ==
  Only({
    IF element.type = "email" \/ IncludesAny(searchText, {"email", "mail", "e-mail"})
      THEN "email"
    ELSE IF element.type = "tel"
            \/ IncludesAny(searchText, {"phone", "tel", "telephone", "mobile",
                                        "cell", "fax"})
      THEN "phone"
    ELSE IF IncludesAny(searchText, {"name", "first", "last", "full", "given",
                                     "surname", "fname", "lname"})
      THEN "name"
    ELSE IF IncludesAny(searchText, {"address", "street", "location", "addr",
                                     "city", "state", "zip", "postal", "country"})
      THEN "address"
    ELSE IF IncludesAny(searchText, {"company", "organization", "institution",
                                     "hospital", "clinic", "org", "dept",
                                     "department"})
      THEN "organization"
    ELSE IF IncludesAny(searchText, {"title", "position", "role", "job",
                                     "profession", "designation"})
      THEN "title"
    ELSE IF IncludesAny(searchText, {"license", "id", "number", "code", "tax",
                                     "ein", "dea", "npi"})
      THEN "identifier"
    ELSE IF element.type = "date"
            \/ IncludesAny(searchText, {"date", "birth", "dob", "born", "created",
                                        "updated"})
      THEN "date"
    ELSE "general" :
    searchText \in {buildSearchText(element, label, context)}})

\* `field_${formIndex}_${elementIndex}` and `unnamed_${elementIndex}`, for
\* indexes below 10
IndexText(n) == CharAt(Digits, n + 1)

\* part_001 lines 850-892: the properties of the descriptor that the
\* matcher reads; element.type is never empty for an input element
createFieldInfo(element, formIndex, elementIndex) ==
  [id |-> OrElse(element.id,
                 "field_" \o IndexText(formIndex) \o "_" \o IndexText(elementIndex)),
   name |-> OrElse(element.name, OrElse(element.id, OrElse(element.placeholder,
              OrElse(element.label, "unnamed_" \o IndexText(elementIndex))))),
   type |-> element.type,
   label |-> element.label,
   context |-> element.context,
   searchText |-> buildSearchText(element, element.label, element.context),
   fieldCategory |-> categorizeField(element, element.label, element.context)]

\* an <input> of the page with nothing around it but its name and type
Input(type, name) ==
  [id |-> "", name |-> name, type |-> type, placeholder |-> "",
   className |-> "", label |-> "", context |-> ""]

(***************************************************************************)
(* BackgroundService.handleMessage: getFieldMappings, processFormData and  *)
(* the default branch.  These handlers touch no storage: between the       *)
(* arrival of the message and the answer nothing of the state is read.     *)
(***************************************************************************)

\* the field descriptors a sender may post: the matcher reads id, name,
\* type, label, context, searchText and fieldCategory
emailField ==
  [id |-> "f1", name |-> "email", type |-> "email", label |-> "Email",
   context |-> Undefined, searchText |-> "email f1", fieldCategory |-> "email"]
dateField ==
  [id |-> "f2", name |-> "mail", type |-> "date", label |-> Undefined,
   context |-> Undefined, searchText |-> Undefined, fieldCategory |-> Undefined]
namelessField ==
  [id |-> "f3", name |-> Undefined, type |-> "email", label |-> "Email",
   context |-> Undefined, searchText |-> "email", fieldCategory |-> "email"]
idlessField ==
  [id |-> Undefined, name |-> "email", type |-> "email", label |-> "Email",
   context |-> Undefined, searchText |-> "email", fieldCategory |-> "email"]

FormFields == {emailField, dateField, namelessField, idlessField}
FieldLists == UNION {[1..n -> FormFields] : n \in 0..MaxFields}

\* the profile texts of the messages
ProfileTexts ==
  {"Email: jane@hosp.org",
   "PI: Dr. Ann Lee\nTel: 555-123-4567",
   "Mobile: 12\nCell: 34\nx@y.org",
   "mail: x\nE-mail: y\n1.2.3.4.5.6.7.8.9.0",
   "x"}

\* descriptors as the content script builds them from the inputs of a page
contactEmailSlot == createFieldInfo(Input("email", "contact_email"), 0, 0)
dobSlot == createFieldInfo(Input("date", "dob"), 0, 0)
phoneFaxSlot == createFieldInfo(Input("tel", "phone_fax"), 0, 0)
phoneEmailSlot == createFieldInfo(Input("text", "phone_email"), 0, 0)
secondPhoneEmailSlot == createFieldInfo(Input("text", "phone_email"), 0, 1)
colorSlot == createFieldInfo(Input("color", "fax"), 0, 0)

ScenarioFieldLists ==
  {<<contactEmailSlot>>, <<dobSlot>>, <<phoneFaxSlot>>, <<colorSlot>>,
   <<phoneEmailSlot, secondPhoneEmailSlot>>}

\* profile texts of whole records
ScenarioA ==
  "Principal Investigator: Dr. Jane Smith\nEmail: jane@hosp.org\nPhone: (555) 123-4567"
ScenarioD == "Tax ID: 12-3456789"
phoneAndFax == "Phone: 555-123-4567\nFax: 555-123-9999"
licenseLine == "License Number: MD12345"

ScenarioTexts ==
  {ScenarioA, ScenarioD, phoneAndFax, licenseLine,
   "Country: USA\nTax ID: 12-3456789\nDept: Oncology"}

AllTexts == ProfileTexts \cup ScenarioTexts

ScenarioRequests ==
  {[action |-> a, fields |-> f, siteData |-> [data |-> t]] :
     a \in {"getFieldMappings", "processFormData"},
     f \in ScenarioFieldLists, t \in AllTexts}

Requests ==
  {[action |-> "getFieldMappings", fields |-> f, siteData |-> [data |-> t]] :
     f \in FieldLists, t \in ProfileTexts}
  \cup
  {[action |-> "processFormData", fields |-> f, siteData |-> [data |-> t]] :
     f \in FieldLists, t \in ProfileTexts}
  \cup ScenarioRequests
  \cup {[action |-> "ping", fields |-> <<>>, siteData |-> [data |-> ""]]}

\* lines 11-12: a message has arrived and handleMessage is called with it;
\* fields is request.fields or request.formData.fields
Post(c, request) ==
  /\ Free(c)
  /\ calls' = [calls EXCEPT ![c] =
       [pc |-> "received", action |-> request.action,
        fields |-> request.fields, siteData |-> request.siteData]]
  /\ UNCHANGED <<now, ticks, nextId, clinicalSites, learningData,
                 interactions, popup, cleaner, created,
                 consent, revoking, rateLimit, checks, content>>

Answered(c, response) ==
  [pc |-> "done", action |-> calls[c].action, fields |-> calls[c].fields,
   siteData |-> calls[c].siteData, response |-> response]

getFieldMappings_Learned(fields, siteData) ==
  Only({[threw |-> result.threw,
         mappings |-> SelectSeq(result.mappings, LAMBDA m :
           ~\E s \in DOMAIN learningData :
              \E r \in Range(learningData[s].interactions) :
                r.fieldId = m.fieldId /\ ~r.wasCorrect)] :
          result \in {Only({generateFieldMappings(fields, extractedData) :
                              extractedData \in
                                {extractStructuredData(siteData.data)}})}})

\* lines 581-584
getFieldMappings(fields, siteData) ==
  Only({generateFieldMappings(fields, extractedData) :
          extractedData \in {extractStructuredData(siteData.data)}})

\* lines 248-257
processFormData(formData, siteData) ==
  Only({Only({[threw |-> result.threw,
               data |-> [extractedData |-> extractedData,
                         mappings |-> result.mappings,
                         confidence |-> calculateOverallConfidence(result.mappings)]] :
                result \in {generateFieldMappings(formData.fields, extractedData)}}) :
          extractedData \in {extractStructuredData(siteData.data)}})

\* a catch block that reports success
Failure_Succeeds(message) == [success |-> TRUE, error |-> message]

\* lines 58-61: the answer of the catch block
Failure(message) == [success |-> FALSE, error |-> message]

TypeErrorMessage == "Cannot read properties of undefined (reading 'toLowerCase')"

\* lines 46-49
HandleGetFieldMappings(c) ==
  /\ calls[c].pc = "received"
  /\ calls[c].action = "getFieldMappings"
  /\ \E result \in {getFieldMappings(calls[c].fields, calls[c].siteData)} :
       calls' = [calls EXCEPT ![c] =
         Answered(c, IF result.threw THEN Failure(TypeErrorMessage)
                     ELSE [success |-> TRUE, mappings |-> result.mappings])]
  /\ UNCHANGED <<now, ticks, nextId, clinicalSites, learningData,
                 interactions, popup, cleaner, created,
                 consent, revoking, rateLimit, checks, content>>

\* lines 36-39
HandleProcessFormData(c) ==
  /\ calls[c].pc = "received"
  /\ calls[c].action = "processFormData"
  /\ \E result \in {processFormData([fields |-> calls[c].fields],
                                     calls[c].siteData)} :
       calls' = [calls EXCEPT ![c] =
         Answered(c, IF result.threw THEN Failure(TypeErrorMessage)
                     ELSE [success |-> TRUE, data |-> result.data])]
  /\ UNCHANGED <<now, ticks, nextId, clinicalSites, learningData,
                 interactions, popup, cleaner, created,
                 consent, revoking, rateLimit, checks, content>>

\* lines 56-57
HandleUnknown(c) ==
  /\ calls[c].pc = "received"
  /\ calls[c].action \notin {"processFormData", "learnFromInteraction",
                              "getFieldMappings", "updateSiteUsage"}
  /\ calls' = [calls EXCEPT ![c] = Answered(c, Failure("Unknown action"))]
  /\ UNCHANGED <<now, ticks, nextId, clinicalSites, learningData,
                 interactions, popup, cleaner, created,
                 consent, revoking, rateLimit, checks, content>>

(***************************************************************************)
(* BackgroundService.handleMessage: updateSiteUsage.                       *)
(***************************************************************************)
RecvUsage(c, siteId) ==
  /\ Free(c)
  /\ calls' = [calls EXCEPT ![c] =
       [pc |-> "awaitGet", action |-> "updateSiteUsage", siteId |-> siteId]]
  /\ UNCHANGED <<now, ticks, nextId, clinicalSites, learningData,
                 interactions, popup, cleaner, created,
                 consent, revoking, rateLimit, checks, content>>

\* lines 66-73: storage.get resolves; a known site is counted and the list
\* handed to storage.set, an unknown one ends the handler
UsageGet(c) ==
  /\ calls[c].pc = "awaitGet"
  /\ calls[c].action = "updateSiteUsage"
  /\ LET sites == clinicalSites
         siteIndex == FindSiteIndex(sites, calls[c].siteId)
     IN calls' = [calls EXCEPT ![c] =
          IF siteIndex # 0
          THEN [pc |-> "awaitSet", action |-> "updateSiteUsage",
                siteId |-> calls[c].siteId,
                toWrite |-> [sites EXCEPT
                  ![siteIndex].usageCount = sites[siteIndex].usageCount + 1,
                  ![siteIndex].lastUsed = now]]
          ELSE [pc |-> "done", action |-> "updateSiteUsage",
                siteId |-> calls[c].siteId,
                response |-> [success |-> TRUE]]]
  /\ UNCHANGED <<now, ticks, nextId, clinicalSites, learningData,
                 interactions, popup, cleaner, created,
                 consent, revoking, rateLimit, checks, content>>

UsageSet(c) ==
  /\ calls[c].pc = "awaitSet"
  /\ calls[c].action = "updateSiteUsage"
  /\ clinicalSites' = calls[c].toWrite
  /\ calls' = [calls EXCEPT ![c] =
       [pc |-> "done", action |-> "updateSiteUsage",
        siteId |-> calls[c].siteId,
        response |-> [success |-> TRUE]]]
  /\ UNCHANGED <<now, ticks, nextId, learningData, interactions, popup,
                 cleaner, created,
                 consent, revoking, rateLimit, checks, content>>

\* lines 58-61: a storage call of recordInteraction or updateSiteUsage
\* rejects; the await throws, nothing more is stored and the catch block
\* answers with the message of the error
StorageErrors == {"QUOTA_BYTES quota exceeded"}

StorageRejects(c, message) ==
  /\ calls[c].pc \in {"awaitGet", "awaitSet"}
  /\ calls' = [calls EXCEPT ![c] =
       [pc |-> "done", action |-> calls[c].action, rejected |-> TRUE,
        response |-> Failure(message)]]
  /\ UNCHANGED <<now, ticks, nextId, clinicalSites, learningData,
                 interactions, popup, cleaner, created,
                 consent, revoking, rateLimit, checks, content>>

(***************************************************************************)
(* PrivacyManager.cleanOldData.                                            *)
(***************************************************************************)
\* line 2055-2056: the cutoff is taken, then the handler waits for storage.get
CleanStart ==
  /\ cleaner.pc = "idle"
  /\ cleaner' = [pc |-> "awaitGet", cutoffDate |-> now - dataRetentionPeriod]
  /\ UNCHANGED <<now, ticks, nextId, clinicalSites, learningData,
                 interactions, calls, popup, created,
                 consent, revoking, rateLimit, checks, content>>

\* lines 2056-2065: both keys are read at once; the filtered sites are
\* handed to storage.set
CleanGet ==
  /\ cleaner.pc = "awaitGet"
  /\ cleaner' = [pc |-> "awaitSetSites", cutoffDate |-> cleaner.cutoffDate,
                 sites |-> FilterSites(clinicalSites, cleaner.cutoffDate),
                 data |-> learningData]
  /\ UNCHANGED <<now, ticks, nextId, clinicalSites, learningData,
                 interactions, calls, popup, created,
                 consent, revoking, rateLimit, checks, content>>

\* lines 2065-2083: the sites are stored; the learning data read before is
\* cleaned and handed to storage.set
CleanSetSites ==
  /\ cleaner.pc = "awaitSetSites"
  /\ clinicalSites' = cleaner.sites
  /\ cleaner' = [pc |-> "awaitSetData",
                 data |-> CleanLearningData(cleaner.data, cleaner.cutoffDate)]
  /\ UNCHANGED <<now, ticks, nextId, learningData, interactions, calls,
                 popup, created,
                 consent, revoking, rateLimit, checks, content>>

CleanSetData ==
  /\ cleaner.pc = "awaitSetData"
  /\ learningData' = cleaner.data
  /\ cleaner' = IdleCleaner
  /\ UNCHANGED <<now, ticks, nextId, clinicalSites, interactions, calls,
                 popup, created,
                 consent, revoking, rateLimit, checks, content>>


(***************************************************************************)
(* PrivacyManager: consent.  recordConsent is one storage.set;             *)
(* revokeConsent clears the whole storage, and after that await sets the   *)
(* two keys of the consent.                                                *)
(***************************************************************************)
\* part_001 lines 2031-2034
hasUserConsent == consent.userConsent = <<TRUE>>

\* part_001 lines 2037-2042
recordConsent ==
  /\ consent' = [userConsent |-> <<TRUE>>, consentTimestamp |-> now]
  /\ UNCHANGED <<now, ticks, nextId, clinicalSites, learningData,
                 interactions, calls, popup, cleaner, created, revoking,
                 rateLimit, checks, content>>

\* part_001 lines 2045-2046 and 2087-2089: cleanAllUserData, that is
\* chrome.storage.local.clear()
RevokeClear ==
  /\ ~revoking
  /\ revoking' = TRUE
  /\ clinicalSites' = <<>>
  /\ learningData' = EmptyObj
  /\ consent' = NoConsent
  /\ rateLimit' = NoAttempts
  /\ UNCHANGED <<now, ticks, nextId, interactions, calls, popup, cleaner,
                 created, checks, content>>

\* part_001 lines 2047-2050
RevokeSet ==
  /\ revoking
  /\ revoking' = FALSE
  /\ consent' = [userConsent |-> <<FALSE>>, consentTimestamp |-> now]
  /\ UNCHANGED <<now, ticks, nextId, clinicalSites, learningData,
                 interactions, calls, popup, cleaner, created, rateLimit,
                 checks, content>>


(***************************************************************************)
(* SecurityManager.checkRateLimit.  The promise is settled in the callback *)
(* of storage.get (rejected) or in the callback of storage.set (resolved); *)
(* other invocations may run between the two callbacks.  The timestamps    *)
(* and the window are counted in steps of the clock.                       *)
(***************************************************************************)
AttemptLimits == {1, 2}
TimeWindows == {1, 2}

RateLimitMessage == "Rate limit exceeded. Please try again later."

\* part_001 lines 1987-1992: now is taken and storage.get is called;
\* invocations take the slots in order
CheckStart(k, operation, maxAttempts, timeWindow) ==
  /\ checks[k].pc = "idle"
  /\ \A j \in 1..(k - 1) : checks[j].pc # "idle"
  /\ checks' = [checks EXCEPT ![k] =
       [pc |-> "awaitGet", operation |-> operation,
        maxAttempts |-> maxAttempts, timeWindow |-> timeWindow,
        now |-> now, attempts |-> <<>>, error |-> ""]]
  /\ UNCHANGED <<now, ticks, nextId, clinicalSites, learningData,
                 interactions, calls, popup, cleaner, created, consent,
                 revoking, rateLimit, content>>

\* part_001 lines 1992-2004: the callback of storage.get filters the stored
\* attempts and rejects, or appends now and calls storage.set
CheckGet(k) ==
  /\ checks[k].pc = "awaitGet"
  /\ \E attempts \in {SelectSeq(rateLimit[checks[k].operation],
                        LAMBDA timestamp :
                          checks[k].now - timestamp < checks[k].timeWindow)} :
       checks' = [checks EXCEPT ![k] =
         IF Len(attempts) >= checks[k].maxAttempts
         THEN [checks[k] EXCEPT !.pc = "rejected", !.error = RateLimitMessage]
         ELSE [checks[k] EXCEPT !.pc = "awaitSet",
                                !.attempts = Append(attempts, checks[k].now)]]
  /\ UNCHANGED <<now, ticks, nextId, clinicalSites, learningData,
                 interactions, calls, popup, cleaner, created, consent,
                 revoking, rateLimit, content>>

\* part_001 lines 2004-2006: storage.set is applied and its callback resolves
CheckSet(k) ==
  /\ checks[k].pc = "awaitSet"
  /\ rateLimit' = [rateLimit EXCEPT ![checks[k].operation] = checks[k].attempts]
  /\ checks' = [checks EXCEPT ![k] = [checks[k] EXCEPT !.pc = "resolved"]]
  /\ UNCHANGED <<now, ticks, nextId, clinicalSites, learningData,
                 interactions, calls, popup, cleaner, created, consent,
                 revoking, content>>

(***************************************************************************)
(* PopupManager (src/unnamed/part_002).                                    *)
(***************************************************************************)
SiteNames == {"Site A"}
SiteTexts == {"Email: jane@hosp.org"}

PopupIds == {popup.sites[i].id : i \in DOMAIN popup.sites}

\* lines 3-13 and 90-93: a popup is constructed with no sites and asks
\* storage for them
PopupOpen ==
  /\ ~popup.open
  /\ popup' = [ClosedPopup EXCEPT !.open = TRUE, !.loading = TRUE]
  /\ UNCHANGED <<now, ticks, nextId, clinicalSites, learningData,
                 interactions, calls, cleaner, created,
                 consent, revoking, rateLimit, checks, content>>

\* lines 92-95: storage.get resolves
LoadSites ==
  /\ popup.open /\ popup.loading
  /\ popup' = [popup EXCEPT !.loading = FALSE, !.sites = clinicalSites]
  /\ UNCHANGED <<now, ticks, nextId, clinicalSites, learningData,
                 interactions, calls, cleaner, created,
                 consent, revoking, rateLimit, checks, content>>

\* the popup window is closed; its object is dropped
PopupClose ==
  /\ popup.open /\ ~popup.loading /\ ~popup.writing
  /\ popup' = ClosedPopup
  /\ UNCHANGED <<now, ticks, nextId, clinicalSites, learningData,
                 interactions, calls, cleaner, created,
                 consent, revoking, rateLimit, checks, content>>

\* lines 122-134; the empty string is the "no site" option
selectSite(siteId) ==
  /\ popup.open
  /\ popup' = [popup EXCEPT !.currentSite =
       IF siteId = "" THEN <<>>
       ELSE SelectSeq(popup.sites, LAMBDA site : site.id = siteId)]
  /\ UNCHANGED <<now, ticks, nextId, clinicalSites, learningData,
                 interactions, calls, cleaner, created,
                 consent, revoking, rateLimit, checks, content>>

\* lines 171-180
showAddSiteModal ==
  /\ popup.open /\ ~popup.modal
  /\ popup' = [popup EXCEPT !.editingSiteId = Null, !.modal = TRUE]
  /\ UNCHANGED <<now, ticks, nextId, clinicalSites, learningData,
                 interactions, calls, cleaner, created,
                 consent, revoking, rateLimit, checks, content>>

\* lines 182-194
showEditSiteModal(siteId) ==
  /\ popup.open /\ ~popup.modal
  /\ siteId \in PopupIds
  /\ popup' = [popup EXCEPT !.editingSiteId = siteId, !.modal = TRUE]
  /\ UNCHANGED <<now, ticks, nextId, clinicalSites, learningData,
                 interactions, calls, cleaner, created,
                 consent, revoking, rateLimit, checks, content>>

\* lines 202-238: the list in memory is changed and handed to storage.set
saveSite(name, data) ==
  /\ popup.open /\ popup.modal /\ ~popup.writing
  /\ IF popup.editingSiteId # Null
     THEN LET siteIndex == FindSiteIndex(popup.sites, popup.editingSiteId)
              sites == IF siteIndex # 0
                       THEN [popup.sites EXCEPT ![siteIndex].name = name,
                                                ![siteIndex].data = data,
                                                ![siteIndex].updatedAt = now]
                       ELSE popup.sites
          IN /\ popup' = [popup EXCEPT !.sites = sites, !.writing = TRUE,
                                       !.toWrite = sites]
             /\ created' = created
     ELSE LET newSite == [id |-> SiteIdPool[created + 1], name |-> name,
                          data |-> data, createdAt |-> now,
                          updatedAt |-> now, usageCount |-> 0,
                          lastUsed |-> NoTime]
              sites == Append(popup.sites, newSite)
          IN /\ created < MaxSites
             /\ popup' = [popup EXCEPT !.sites = sites, !.writing = TRUE,
                                       !.toWrite = sites]
             /\ created' = created + 1
  /\ UNCHANGED <<now, ticks, nextId, clinicalSites, learningData,
                 interactions, calls, cleaner,
                 consent, revoking, rateLimit, checks, content>>

\* lines 249-256: the site leaves the list in memory, which is handed to
\* storage.set
deleteSite(siteId) ==
  /\ popup.open /\ ~popup.writing
  /\ siteId \in PopupIds
  /\ LET sites == SelectSeq(popup.sites, LAMBDA site : site.id # siteId)
     IN popup' = [popup EXCEPT !.sites = sites, !.writing = TRUE,
                               !.toWrite = sites, !.deleted = siteId]
  /\ UNCHANGED <<now, ticks, nextId, clinicalSites, learningData,
                 interactions, calls, cleaner, created,
                 consent, revoking, rateLimit, checks, content>>

\* storage.set of saveSite or deleteSite is applied and the handler goes on:
\* lines 240-242 (the modal is hidden) or lines 257-262 (the selection is
\* cleared when it was the deleted site)
PopupWritten ==
  /\ popup.open /\ popup.writing
  /\ clinicalSites' = popup.toWrite
  /\ popup' = IF popup.deleted # Null
              THEN [popup EXCEPT
                     !.writing = FALSE, !.toWrite = <<>>, !.deleted = Null,
                     !.currentSite =
                        IF popup.currentSite # <<>>
                           /\ popup.currentSite[1].id = popup.deleted
                        THEN <<>> ELSE popup.currentSite]
              ELSE [popup EXCEPT
                     !.writing = FALSE, !.toWrite = <<>>,
                     !.modal = FALSE, !.editingSiteId = Null]
  /\ UNCHANGED <<now, ticks, nextId, learningData, interactions, calls,
                 cleaner, created,
                 consent, revoking, rateLimit, checks, content>>

(***************************************************************************)
(* FormFiller.setupFormObserver and detectForms (src/unnamed/part_001).    *)
(***************************************************************************)
\* line 1094: the delay of the timer, in milliseconds
debounceDelay == 500

\* lines 1076-1095: the observer is called with a batch of mutations; when
\* one of them added a form or an element that contains a field, a timer is
\* started.  No timer is cancelled.
ObserverCallback(hasFormElements) ==
  /\ Len(content.batches) < MaxBatches
  /\ content' = [content EXCEPT
       !.batches = Append(@, [time |-> content.clock,
                              hasFormElements |-> hasFormElements]),
       !.dom = IF hasFormElements THEN @ + 1 ELSE @,
       !.timers = IF hasFormElements
                  THEN Append(@, content.clock + debounceDelay) ELSE @]
  /\ UNCHANGED <<now, ticks, nextId, clinicalSites, learningData,
                 interactions, calls, popup, cleaner, created,
                 consent, revoking, rateLimit, checks>>

\* lines 1094 and 779-793: a timer is due and calls detectForms, which
\* collects the fields of the document anew
TimerFires ==
  /\ content.timers # <<>>
  /\ content.timers[1] <= content.clock
  /\ content' = [content EXCEPT
       !.timers = Tail(@),
       !.runs = Append(@, content.clock),
       !.detected = content.dom]
  /\ UNCHANGED <<now, ticks, nextId, clinicalSites, learningData,
                 interactions, calls, popup, cleaner, created,
                 consent, revoking, rateLimit, checks>>

\* time passes on the page; a timer that is due runs before time goes on
PassTime ==
  /\ content.clock < MaxClock
  /\ \A i \in DOMAIN content.timers : content.timers[i] > content.clock
  /\ content' = [content EXCEPT !.clock = @ + debounceDelay \div 2]
  /\ UNCHANGED <<now, ticks, nextId, clinicalSites, learningData,
                 interactions, calls, popup, cleaner, created,
                 consent, revoking, rateLimit, checks>>

(***************************************************************************)
(* FormFiller.fillField, triggerFieldEvents and validateAndLearn           *)
(* (src/unnamed/part_001).                                                 *)
(***************************************************************************)
\* s.replace(/[^set]/g, ''): the characters of s that are in the set
RECURSIVE KeepFrom(_, _, _)
KeepFrom(s, k, set) ==
  IF k > Len(s) THEN ""
  ELSE (IF CharAt(s, k) \in set THEN CharAt(s, k) ELSE "")
         \o KeepFrom(s, k + 1, set)

\* lines 1346-1358
formatPhone(phone) ==
  Only({IF Len(digits) = 10
        THEN "(" \o SubSeq(digits, 1, 3) \o ") " \o SubSeq(digits, 4, 6)
               \o "-" \o SubSeq(digits, 7, 10)
        ELSE IF Len(digits) = 11 /\ CharAt(digits, 1) = "1"
        THEN "+1 (" \o SubSeq(digits, 2, 4) \o ") " \o SubSeq(digits, 5, 7)
               \o "-" \o SubSeq(digits, 8, 11)
        ELSE phone :
          digits \in {KeepFrom(phone, 1, DigitSet)}})

\* the length of the run of digits of s that starts at position k
DigitRun(s, k) ==
  (CHOOSE n \in k..(Len(s) + 1) :
     /\ n = Len(s) + 1 \/ CharAt(s, n) \notin DigitSet
     /\ \A j \in k..(n - 1) : CharAt(s, j) \in DigitSet) - k

\* s without the zeros at its start, and without the zeros at its end
RECURSIVE DropLeadingZeros(_)
DropLeadingZeros(s) ==
  IF Len(s) > 0 /\ CharAt(s, 1) = "0"
  THEN DropLeadingZeros(SubSeq(s, 2, Len(s))) ELSE s
RECURSIVE DropTrailingZeros(_)
DropTrailingZeros(s) ==
  IF Len(s) > 0 /\ CharAt(s, Len(s)) = "0"
  THEN DropTrailingZeros(SubSeq(s, 1, Len(s) - 1)) ELSE s

\* lines 1380-1387 and the conversion of the number to the text of
\* element.value: parseFloat reads a sign, digits and a fraction from the
\* start of the string (no exponent occurs after the replace); the result
\* is the text of the number in a list of one, or <<>> for null (NaN)
extractNumber(value) ==
  LET numericString == KeepFrom(value, 1, DigitSet \cup {".", "-"})
      signed == Len(numericString) > 0 /\ CharAt(numericString, 1) = "-"
      start == IF signed THEN 2 ELSE 1
      whole == DigitRun(numericString, start)
      dot == start + whole
      hasDot == dot <= Len(numericString) /\ CharAt(numericString, dot) = "."
      part == IF hasDot THEN DigitRun(numericString, dot + 1) ELSE 0
      int == DropLeadingZeros(SubSeq(numericString, start, start + whole - 1))
      frac == DropTrailingZeros(SubSeq(numericString, dot + 1, dot + part))
  IN IF whole = 0 /\ part = 0 THEN <<>>
     ELSE IF int = "" /\ frac = "" THEN <<"0">>
     ELSE <<(IF signed THEN "-" ELSE "")
              \o (IF int = "" THEN "0" ELSE int)
              \o (IF frac = "" THEN "" ELSE "." \o frac)>>

\* lines 1343-1344: /^[^\s@]+@[^\s@]+\.[^\s@]+$/
isValidEmail(email) ==
  /\ \A i \in 1..Len(email) : CharAt(email, i) \notin SpaceSet
  /\ \E a \in 2..Len(email) :
       /\ CharAt(email, a) = "@"
       /\ \A i \in 1..Len(email) : CharAt(email, i) = "@" => i = a
       /\ \E d \in (a + 2)..(Len(email) - 1) : CharAt(email, d) = "."

\* String.prototype.toUpperCase
RECURSIVE UpperFrom(_, _)
UpperFrom(s, k) ==
  IF k > Len(s) THEN "" ELSE UpperChar(CharAt(s, k)) \o UpperFrom(s, k + 1)

\* lines 1426-1430: every match of /\w\S*/g gets its first character in
\* upper case and the rest in lower case; inWord says that position k is
\* inside a match
RECURSIVE TitleFrom(_, _, _)
TitleFrom(str, k, inWord) ==
  IF k > Len(str) THEN ""
  ELSE LET c == CharAt(str, k)
       IN IF inWord
          THEN IF c \in SpaceSet THEN c \o TitleFrom(str, k + 1, FALSE)
               ELSE LowerChar(c) \o TitleFrom(str, k + 1, TRUE)
          ELSE IF c \in WordSet THEN UpperChar(c) \o TitleFrom(str, k + 1, TRUE)
               ELSE c \o TitleFrom(str, k + 1, FALSE)

toTitleCase(str) == TitleFrom(str, 1, FALSE)

\* lines 1405-1424
formatValueForField(value, field) ==
  LET searchText == OrElse(field.searchText, "")
      fieldName == toLowerCase(field.name)
  IN IF Includes(searchText, "upper") \/ Includes(fieldName, "upper")
     THEN UpperFrom(value, 1)
     ELSE IF Includes(searchText, "lower") \/ Includes(fieldName, "lower")
     THEN toLowerCase(value)
     ELSE IF field.fieldCategory = "name" \/ Includes(searchText, "name")
     THEN toTitleCase(value)
     ELSE value

\* lines 1214-1277: what fillField assigns to element.value for a field of
\* one of the types email, tel, phone, textarea, number and text, in a list
\* of one, or <<>> when the value does not suit the type (success = false)
ValueToWrite(field, value) ==
  CASE field.type = "email" ->
         IF isValidEmail(value) THEN <<value>> ELSE <<>>
    [] field.type \in {"tel", "phone"} ->
         IF formatPhone(value) # "" THEN <<formatPhone(value)>> ELSE <<>>
    [] field.type = "textarea" -> <<value>>
    [] field.type = "number" -> extractNumber(value)
    [] OTHER ->
         IF Len(Trim(value)) > 0 THEN <<formatValueForField(value, field)>>
         ELSE <<>>

\* lines 1483-1493, for elements without the class error and without
\* aria-invalid
getUserFeedback(value) == IF Trim(value) = "" THEN "cleared" ELSE "accepted"

\* lines 1449-1473: the interaction that validateAndLearn sends for an
\* element whose value is currentValue (the timestamp is left out)
LearnedInteraction(filledData, currentValue) ==
  [siteId |-> filledData.siteData.id,
   fieldId |-> filledData.mapping.fieldId,
   predictedValue |-> filledData.originalValue,
   actualValue |-> currentValue,
   wasCorrect |-> (currentValue = filledData.originalValue),
   confidence |-> filledData.mapping.confidence,
   userFeedback |-> getUserFeedback(currentValue)]

\* lines 1104-1117: the listeners for input and blur on the document; the
\* messages the listener sends for one event on the element
ListenerSends(element, currentValue) ==
  IF content.isActive /\ element \in DOMAIN content.filledFields
  THEN <<LearnedInteraction(content.filledFields[element], currentValue)>>
  ELSE <<>>

\* the fields of the page as detectForms describes them
PageFields ==
  [e \in ElementIds |->
     CASE e = "phone" ->
            [id |-> e, name |-> "phone", type |-> "tel",
             searchText |-> "phone", fieldCategory |-> "phone"]
       [] e = "age" ->
            [id |-> e, name |-> "age", type |-> "number",
             searchText |-> "age", fieldCategory |-> "number"]
       [] e = "fullname" ->
            [id |-> e, name |-> "fullname", type |-> "text",
             searchText |-> "full name fullname", fieldCategory |-> "name"]
       [] e = "email" ->
            [id |-> e, name |-> "email", type |-> "email",
             searchText |-> "email", fieldCategory |-> "email"]]

\* the values that the mappings of the background propose for the fields
MappedValues ==
  [e \in ElementIds |->
     CASE e = "phone" -> {"555-123-4567"}
       [] e = "age" -> {"42 years", "n/a"}
       [] e = "fullname" -> {"jane smith"}
       [] e = "email" -> {"jane@hosp.org"}]

\* what the user may type into a field
TypedValues == {"", "Jane"}

\* line 1121: fillForms marks the content script active; it stays active
fillForms ==
  /\ ~content.isActive
  /\ content' = [content EXCEPT !.isActive = TRUE]
  /\ UNCHANGED <<now, ticks, nextId, clinicalSites, learningData,
                 interactions, calls, popup, cleaner, created,
                 consent, revoking, rateLimit, checks>>

\* lines 1204-1303 and 1432-1447: fillField for one mapping of fillForms.
\* The value is assigned; triggerFieldEvents dispatches input, change, blur
\* and keyup, all with bubbles: true, so that the listeners of the document
\* for input and for blur run, in this order, before filledFields.set.  The
\* blur that element.blur() causes 10 ms later does not bubble and does not
\* reach the listener of the document.
fillField(element, mappedValue) ==
  /\ content.isActive
  /\ content.fills < MaxFills
  /\ LET field == PageFields[element]
         mapping == [fieldId |-> field.id, mappedValue |-> mappedValue,
                     confidence |-> 800]
     IN \E toWrite \in {ValueToWrite(field, mappedValue)} :
          IF toWrite = <<>>
          THEN content' = [content EXCEPT !.fills = @ + 1]
          ELSE content' = [content EXCEPT
                 !.fills = @ + 1,
                 !.value[element] = toWrite[1],
                 !.written = Put(@, element, toWrite[1]),
                 !.sent = @ \o ListenerSends(element, toWrite[1])
                            \o ListenerSends(element, toWrite[1]),
                 !.filledFields = Put(@, element,
                    [mapping |-> mapping, siteData |-> [id |-> "s1"],
                     originalValue |-> mappedValue])]
  /\ UNCHANGED <<now, ticks, nextId, clinicalSites, learningData,
                 interactions, calls, popup, cleaner, created,
                 consent, revoking, rateLimit, checks>>

\* the user edits a field: the element has the new value and an input event
\* bubbles to the listener of the document (lines 1106-1110)
UserInput(element, typed) ==
  /\ content.inputs < MaxInputs
  /\ content' = [content EXCEPT
       !.inputs = @ + 1,
       !.value[element] = typed,
       !.sent = @ \o ListenerSends(element, typed)]
  /\ UNCHANGED <<now, ticks, nextId, clinicalSites, learningData,
                 interactions, calls, popup, cleaner, created,
                 consent, revoking, rateLimit, checks>>

(***************************************************************************)
(* The program: every handler may start at any time; the steps of the      *)
(* handlers interleave.                                                    *)
(***************************************************************************)
TickSteps == {dataRetentionPeriod}
UsageSiteIds == {"s1", "s2"}

Next ==
  \/ \E d \in TickSteps : Tick(d)
  \/ \E c \in CallIds, i \in Interactions : RecvLearn(c, i)
  \/ \E c \in CallIds : LearnGet(c)
  \/ \E c \in CallIds : LearnSet(c)
  \/ \E c \in CallIds, s \in UsageSiteIds : RecvUsage(c, s)
  \/ \E c \in CallIds : UsageGet(c)
  \/ \E c \in CallIds : UsageSet(c)
  \/ \E c \in CallIds, r \in Requests : Post(c, r)
  \/ \E c \in CallIds : HandleGetFieldMappings(c)
  \/ \E c \in CallIds : HandleProcessFormData(c)
  \/ \E c \in CallIds : HandleUnknown(c)
  \/ CleanStart
  \/ CleanGet
  \/ CleanSetSites
  \/ CleanSetData
  \/ PopupOpen
  \/ LoadSites
  \/ PopupClose
  \/ \E s \in SiteIds \cup {""} : selectSite(s)
  \/ showAddSiteModal
  \/ \E s \in SiteIds : showEditSiteModal(s)
  \/ \E n \in SiteNames, t \in SiteTexts : saveSite(n, t)
  \/ \E s \in SiteIds : deleteSite(s)
  \/ PopupWritten

Spec == Init /\ [][Next]_vars

(***************************************************************************)
(* The feedback path alone: learnFromInteraction messages whose handlers   *)
(* interleave at their awaits.                                             *)
(***************************************************************************)
NextLearn ==
  \/ \E c \in CallIds, i \in Interactions : RecvLearn(c, i)
  \/ \E c \in CallIds : LearnGet(c)
  \/ \E c \in CallIds : LearnSet(c)

SpecLearn == Init /\ [][NextLearn]_vars

\* the same messages, each handled to its end before the next arrives
NextLearnSeq ==
  \/ ~Busy /\ \E c \in CallIds, i \in Interactions : RecvLearn(c, i)
  \/ \E c \in CallIds : LearnGet(c)
  \/ \E c \in CallIds : LearnSet(c)

SpecLearnSeq == Init /\ [][NextLearnSeq]_vars

(***************************************************************************)
(* The operations on storage executed one after another: an operation      *)
(* starts only when no other is between two of its awaits.                 *)
(***************************************************************************)
SeqCallIds == 1..MaxSeqCalls
SeqInteractions == {i \in Interactions : i.siteId = "s1" /\ i.fieldId = "f1"}

NextSeq ==
  \/ \E d \in TickSteps : Tick(d)
  \/ ~Busy /\ \E c \in SeqCallIds, i \in SeqInteractions : RecvLearn(c, i)
  \/ \E c \in CallIds : LearnGet(c)
  \/ \E c \in CallIds : LearnSet(c)
  \/ ~Busy /\ \E c \in SeqCallIds, s \in UsageSiteIds : RecvUsage(c, s)
  \/ \E c \in CallIds : UsageGet(c)
  \/ \E c \in CallIds : UsageSet(c)
  \/ ~Busy /\ CleanStart
  \/ CleanGet
  \/ CleanSetSites
  \/ CleanSetData
  \/ ~Busy /\ PopupOpen
  \/ LoadSites
  \/ ~Busy /\ showAddSiteModal
  \/ ~Busy /\ \E s \in SiteIds : showEditSiteModal(s)
  \/ ~Busy /\ \E n \in SiteNames, t \in SiteTexts : saveSite(n, t)
  \/ ~Busy /\ \E s \in SiteIds : deleteSite(s)
  \/ PopupWritten

SpecSeq == Init /\ [][NextSeq]_vars

(***************************************************************************)
(* One message of the matching path: any of the requests has arrived and   *)
(* is handled.                                                             *)
(***************************************************************************)
InitMessages ==
  /\ now = 0
  /\ ticks = 0
  /\ nextId = 1
  /\ clinicalSites = <<>>
  /\ learningData = EmptyObj
  /\ interactions = <<>>
  /\ \E r \in Requests :
       calls = [c \in CallIds |->
                  IF c = 1
                  THEN [pc |-> "received", action |-> r.action,
                        fields |-> r.fields, siteData |-> r.siteData]
                  ELSE IdleCall]
  /\ popup = ClosedPopup
  /\ cleaner = IdleCleaner
  /\ created = 0
  /\ consent = NoConsent
  /\ revoking = FALSE
  /\ rateLimit = NoAttempts
  /\ checks = [k \in CheckIds |-> IdleCall]
  /\ content = NewContent

NextMessages ==
  \/ \E c \in CallIds : HandleGetFieldMappings(c)
  \/ \E c \in CallIds : HandleProcessFormData(c)
  \/ \E c \in CallIds : HandleUnknown(c)

SpecMessages == InitMessages /\ [][NextMessages]_vars

(***************************************************************************)
(* Matching and feedback: matching requests and learnFromInteraction       *)
(* messages in any order, each handled to its end before the next arrives. *)
(***************************************************************************)
FeedbackRequests ==
  {r \in Requests : /\ r.action \in {"getFieldMappings", "processFormData"}
                    /\ r.fields = <<emailField>>
                    /\ r.siteData.data = "Email: jane@hosp.org"}

NextFeedback ==
  \/ ~Busy /\ \E c \in CallIds, i \in SeqInteractions : RecvLearn(c, i)
  \/ \E c \in CallIds : LearnGet(c)
  \/ \E c \in CallIds : LearnSet(c)
  \/ ~Busy /\ \E c \in CallIds, r \in FeedbackRequests : Post(c, r)
  \/ \E c \in CallIds : HandleGetFieldMappings(c)
  \/ \E c \in CallIds : HandleProcessFormData(c)

SpecFeedback == Init /\ [][NextFeedback]_vars

(***************************************************************************)
(* Consent and processing: the user grants and revokes consent at any time *)
(* while matching requests and learnFromInteraction messages arrive, each  *)
(* handled to its end before the next arrives.                             *)
(***************************************************************************)
NextConsent ==
  \/ recordConsent
  \/ RevokeClear
  \/ RevokeSet
  \/ ~Busy /\ \E c \in SeqCallIds, i \in SeqInteractions : RecvLearn(c, i)
  \/ \E c \in CallIds : LearnGet(c)
  \/ \E c \in CallIds : LearnSet(c)
  \/ ~Busy /\ \E c \in SeqCallIds, r \in FeedbackRequests : Post(c, r)
  \/ \E c \in CallIds : HandleGetFieldMappings(c)
  \/ \E c \in CallIds : HandleProcessFormData(c)

SpecConsent == Init /\ [][NextConsent]_vars

(***************************************************************************)
(* The rate limiter: invocations of checkRateLimit that interleave at      *)
(* their storage callbacks while the clock advances.                       *)
(***************************************************************************)
NextRateLimit ==
  \/ Tick(1)
  \/ \E k \in CheckIds, o \in Operations, m \in AttemptLimits, w \in TimeWindows :
       CheckStart(k, o, m, w)
  \/ \E k \in CheckIds : CheckGet(k)
  \/ \E k \in CheckIds : CheckSet(k)

SpecRateLimit == Init /\ [][NextRateLimit]_vars

(***************************************************************************)
(* The usage counter with overlapping updateSiteUsage messages: storage    *)
(* holds one site that the popup saved earlier, and the content script     *)
(* sends the message once per fillForms (part_001 lines 1128-1132) for     *)
(* that site or for an id storage does not know.                           *)
(***************************************************************************)
savedSite ==
  [id |-> SiteIdPool[1], name |-> "Site A", data |-> "Email: jane@hosp.org",
   createdAt |-> 0, updatedAt |-> 0, usageCount |-> 0, lastUsed |-> NoTime]

InitSaved ==
  /\ now = 0
  /\ ticks = 0
  /\ nextId = 1
  /\ clinicalSites = <<savedSite>>
  /\ learningData = EmptyObj
  /\ interactions = <<>>
  /\ calls = [c \in CallIds |-> IdleCall]
  /\ popup = ClosedPopup
  /\ cleaner = IdleCleaner
  /\ created = 1
  /\ consent = NoConsent
  /\ revoking = FALSE
  /\ rateLimit = NoAttempts
  /\ checks = [k \in CheckIds |-> IdleCall]
  /\ content = NewContent

NextUsage ==
  \/ \E d \in TickSteps : Tick(d)
  \/ \E c \in CallIds, s \in UsageSiteIds : RecvUsage(c, s)
  \/ \E c \in CallIds : UsageGet(c)
  \/ \E c \in CallIds : UsageSet(c)

SpecUsage == InitSaved /\ [][NextUsage]_vars

(***************************************************************************)
(* The stored list of sites with the popup deleting the saved site while   *)
(* updateSiteUsage messages and the retention cleaner are under way.  The  *)
(* clock stands still, so the cleaner finds nothing expired.               *)
(***************************************************************************)
NextSites ==
  \/ PopupOpen
  \/ LoadSites
  \/ PopupClose
  \/ \E s \in SiteIds : deleteSite(s)
  \/ PopupWritten
  \/ \E c \in SeqCallIds, s \in UsageSiteIds : RecvUsage(c, s)
  \/ \E c \in CallIds : UsageGet(c)
  \/ \E c \in CallIds : UsageSet(c)
  \/ CleanStart
  \/ CleanGet
  \/ CleanSetSites
  \/ CleanSetData

SpecSites == InitSaved /\ [][NextSites]_vars

(***************************************************************************)
(* Every kind of message and both outcomes of a storage call: a matching   *)
(* or unknown request is answered, then feedback and usage messages        *)
(* arrive, whose storage calls may reject.                                 *)
(***************************************************************************)
ReplyRequests ==
  {r \in Requests :
     \/ r.action = "ping"
     \/ /\ r.siteData.data = "Email: jane@hosp.org"
        /\ r.fields \in {<<emailField>>, <<namelessField>>}}

InitReplies ==
  /\ now = 0
  /\ ticks = 0
  /\ nextId = 1
  /\ clinicalSites = <<savedSite>>
  /\ learningData = EmptyObj
  /\ interactions = <<>>
  /\ \E r \in ReplyRequests :
       calls = [c \in CallIds |->
                  IF c = 1
                  THEN [pc |-> "received", action |-> r.action,
                        fields |-> r.fields, siteData |-> r.siteData]
                  ELSE IdleCall]
  /\ popup = ClosedPopup
  /\ cleaner = IdleCleaner
  /\ created = 1
  /\ consent = NoConsent
  /\ revoking = FALSE
  /\ rateLimit = NoAttempts
  /\ checks = [k \in CheckIds |-> IdleCall]
  /\ content = NewContent

NextReplies ==
  \/ \E c \in CallIds : HandleGetFieldMappings(c)
  \/ \E c \in CallIds : HandleProcessFormData(c)
  \/ \E c \in CallIds : HandleUnknown(c)
  \/ calls[1].pc = "done"
       /\ \E c \in CallIds, i \in SeqInteractions : RecvLearn(c, i)
  \/ \E c \in CallIds : LearnGet(c)
  \/ \E c \in CallIds : LearnSet(c)
  \/ calls[1].pc = "done"
       /\ \E c \in CallIds, s \in UsageSiteIds : RecvUsage(c, s)
  \/ \E c \in CallIds : UsageGet(c)
  \/ \E c \in CallIds : UsageSet(c)
  \/ \E c \in CallIds, message \in StorageErrors : StorageRejects(c, message)

SpecReplies == InitReplies /\ [][NextReplies]_vars

(***************************************************************************)
(* The popup alone: the user selects, adds, renames and deletes sites,     *)
(* each time after the handler of the previous action has ended.           *)
(***************************************************************************)
EditNames == {"Site A", "Site B"}

NextPopup ==
  \/ \E d \in TickSteps : Tick(d)
  \/ PopupOpen
  \/ LoadSites
  \/ PopupClose
  \/ ~Busy /\ \E s \in SiteIds \cup {""} : selectSite(s)
  \/ ~Busy /\ showAddSiteModal
  \/ ~Busy /\ \E s \in SiteIds : showEditSiteModal(s)
  \/ ~Busy /\ \E n \in EditNames, t \in SiteTexts : saveSite(n, t)
  \/ ~Busy /\ \E s \in SiteIds : deleteSite(s)
  \/ PopupWritten

SpecPopup == Init /\ [][NextPopup]_vars

(***************************************************************************)
(* The form observer: the page changes while time passes.                  *)
(***************************************************************************)
NextObserver ==
  \/ \E hasFormElements \in BOOLEAN : ObserverCallback(hasFormElements)
  \/ TimerFires
  \/ PassTime

SpecObserver == Init /\ [][NextObserver]_vars

(***************************************************************************)
(* Filling and editing: fillForms fills fields, also a second time, and    *)
(* the user types into fields or restores what a field held.               *)
(***************************************************************************)
NextFill ==
  \/ fillForms
  \/ \E e \in ElementIds : \E v \in MappedValues[e] : fillField(e, v)
  \/ \E e \in ElementIds :
       \E typed \in TypedValues \cup {content.value[e]} : UserInput(e, typed)

SpecFill == Init /\ [][NextFill]_vars

(***************************************************************************)
(* Properties of the feedback path.                                        *)
(***************************************************************************)
\* no handleMessage invocation is between two awaits
Quiescent == \A c \in CallIds : calls[c].pc \in {"idle", "done"}

\* the records storage holds for a profile
Stored(s) ==
  IF s \in DOMAIN learningData THEN Range(learningData[s].interactions) ELSE {}

\* the records recordInteraction has been given for a profile, in order
Given(s) == SelectSeq(interactions, LAMBDA r : r.siteId = s)

ProfileKeys == {"s1", "s2", Undefined}

SiteExists(list, s) == \E i \in DOMAIN list : list[i].id = s

\* C3: when the feedback outcomes that arrived were all for one profile and
\* every call has completed, the stored history of that profile contains
\* every one of the records, also when the calls overlapped.
C3_SameProfileNoLostUpdate ==
  (Quiescent /\ \A q, r \in Range(interactions) : q.siteId = r.siteId)
    => \A r \in Range(interactions) : r \in Stored(r.siteId)

\* C4: after recordInteraction calls executed one after another, the stored
\* accuracy of every profile is (its records with wasCorrect) / (its records).
C4_AccuracyIsCorrectOverTotal ==
  Quiescent =>
    \A s \in ProfileKeys :
      Len(Given(s)) > 0 =>
        /\ s \in DOMAIN learningData
        /\ learningData[s].accuracy[2] > 0
        /\ learningData[s].accuracy[1] * Len(Given(s))
             = Cardinality({i \in DOMAIN Given(s) : Given(s)[i].wasCorrect})
                 * learningData[s].accuracy[2]

\* Scenario E: three records, wasCorrect = true, true, false, accuracy 2/3
C4_Witness_ScenarioE ==
  /\ Quiescent
  /\ Len(Given("s1")) = 3
  /\ [i \in 1..3 |-> Given("s1")[i].wasCorrect] = <<TRUE, TRUE, FALSE>>
  /\ "s1" \in DOMAIN learningData
  /\ learningData["s1"].accuracy = <<2, 3>>

Valid(r) == r.siteId # Undefined /\ r.fieldId # Undefined

\* C6: a record that lacks siteId or fieldId is answered with an error and
\* is recorded neither in memory nor in storage.
C6_InvalidRecordRejected ==
  /\ \A r \in Range(interactions) : Valid(r)
  /\ \A s \in DOMAIN learningData :
       s # Undefined /\ \A r \in Range(learningData[s].interactions) : Valid(r)
  /\ \A c \in CallIds :
       (calls[c].pc = "done" /\ calls[c].action = "learnFromInteraction"
          /\ ~Valid(calls[c].interaction))
         => ~calls[c].response.success

\* C8: when the feedback outcomes that arrived were for different profiles
\* and every call has completed, the records and the accuracy of each of
\* the profiles are in storage, also when the calls overlapped.
C8_DifferentProfilesIndependent ==
  (Quiescent /\ \A i, j \in DOMAIN interactions :
                  i # j => interactions[i].siteId # interactions[j].siteId)
    => \A r \in Range(interactions) :
         /\ r \in Stored(r.siteId)
         /\ learningData[r.siteId].accuracy = calculateSiteAccuracy(<<r>>)

\* C10 as claimed: while a profile exists, no step removes a record from
\* its stored history.
C10_AppendOnlyWhileProfileExists ==
  [][\A s \in SiteIds :
       (SiteExists(clinicalSites, s) /\ SiteExists(clinicalSites', s))
         => \A r \in Stored(s) :
              r \in (IF s \in DOMAIN learningData'
                     THEN Range(learningData'[s].interactions) ELSE {})]_vars

\* C10 amended: while a profile exists, a step removes a record from its
\* stored history only if the record is at least dataRetentionPeriod old
\* (the retention cleaner removes such records of existing profiles).
C10_RemovedOnlyWhenExpired ==
  [][\A s \in SiteIds :
       (SiteExists(clinicalSites, s) /\ SiteExists(clinicalSites', s))
         => \A r \in Stored(s) :
              \/ r \in (IF s \in DOMAIN learningData'
                        THEN Range(learningData'[s].interactions) ELSE {})
              \/ r.timestamp + dataRetentionPeriod <= now]_vars

\* the cleaner is about to store a history of an existing profile from which
\* it dropped an expired record and in which it kept a recent one
C10_Witness_CleanerKeptRecent ==
  /\ cleaner.pc = "awaitSetData"
  /\ SiteExists(clinicalSites, "s1")
  /\ "s1" \in DOMAIN cleaner.data
  /\ \E r \in Stored("s1") : r \notin Range(cleaner.data["s1"].interactions)
  /\ \E r \in Stored("s1") : r \in Range(cleaner.data["s1"].interactions)

(***************************************************************************)
(* Properties of the matching path.                                        *)
(***************************************************************************)
\* a matching request has been answered
Matched(c) ==
  /\ calls[c].pc = "done"
  /\ calls[c].action \in {"getFieldMappings", "processFormData"}

\* the mappings of an answer that reports success
MappingsOf(c) ==
  IF calls[c].action = "getFieldMappings" THEN calls[c].response.mappings
  ELSE calls[c].response.data.mappings

\* what extraction yields for each of the profile texts
ExtractedOf == [t \in AllTexts |-> extractStructuredData(t)]

ValidFields(fields) == SelectSeq(fields, LAMBDA f : ~MatchThrows(f))

\* C1: the confidence of every Assignment that matching returns lies in
\* [0,1] (0..1000 thousandths), also when the slot's category maps to the
\* chosen EntityType.
C1_ConfidenceAtMostOne ==
  \A c \in CallIds :
    (Matched(c) /\ calls[c].response.success)
      => \A m \in Range(MappingsOf(c)) : m.confidence >= 0 /\ m.confidence <= 1000

\* C2: every Assignment carries the score of its slot against the chosen
\* EntityType and that score strictly exceeds the threshold; a slot none of
\* whose scores exceeds the threshold gets no Assignment, and a request whose
\* descriptors all have id and name is answered with success.
C2_AssignmentOnlyAboveThreshold ==
  \A c \in CallIds :
    Matched(c) =>
      LET fields == calls[c].fields
          extracted == ExtractedOf[calls[c].siteData.data]
      IN /\ calls[c].response.success =>
              \A m \in Range(MappingsOf(c)) :
                /\ m.confidence > minScore
                /\ \E i \in DOMAIN fields, k \in DOMAIN extracted :
                     /\ fields[i].id = m.fieldId
                     /\ extracted[k].fieldType = m.extractedFrom
                     /\ m.confidence = BoostedScore(fields[i], m.extractedFrom)
         /\ ValidFields(fields) = fields =>
              /\ calls[c].response.success
              /\ \A i \in DOMAIN fields :
                   (\A k \in DOMAIN extracted :
                      BoostedScore(fields[i], extracted[k].fieldType) <= minScore)
                     => \A m \in Range(MappingsOf(c)) : m.fieldId # fields[i].id

\* a request with one slot that is assigned and one whose best score is
\* positive but not above the threshold, which is left without Assignment
C2_Witness_BelowThresholdUnassigned ==
  \E c \in CallIds :
    /\ Matched(c)
    /\ calls[c].fields = <<emailField, dateField>>
    /\ calls[c].response.success
    /\ \E m \in Range(MappingsOf(c)) : m.fieldId = emailField.id
    /\ \A m \in Range(MappingsOf(c)) : m.fieldId # dateField.id
    /\ \E k \in DOMAIN ExtractedOf[calls[c].siteData.data] :
         LET score == BoostedScore(dateField,
                        ExtractedOf[calls[c].siteData.data][k].fieldType)
         IN score > 0 /\ score <= minScore

\* C5: extraction returns at most one value per EntityType, and every
\* confidence it returns, of the strict pass or of the flexible pass, lies in
\* [0,1] (0..1000 thousandths).
C5_OneValuePerTypeConfidenceInRange ==
  \A c \in CallIds :
    (Matched(c) /\ calls[c].action = "processFormData" /\ calls[c].response.success)
      => LET extracted == calls[c].response.data.extractedData
         IN /\ \A i, j \in DOMAIN extracted :
                 i # j => extracted[i].fieldType # extracted[j].fieldType
            /\ \A i \in DOMAIN extracted :
                 extracted[i].confidence >= 0 /\ extracted[i].confidence <= 1000

\* a text with two lines for the same EntityType was extracted: the result
\* has values of both passes, one of them with the confidence 1.0
C5_Witness_BothPasses ==
  \E c \in CallIds :
    /\ Matched(c)
    /\ calls[c].action = "processFormData"
    /\ calls[c].siteData.data = "Mobile: 12\nCell: 34\nx@y.org"
    /\ calls[c].response.success
    /\ LET extracted == calls[c].response.data.extractedData
       IN /\ \E i \in DOMAIN extracted :
               extracted[i].method = "regex" /\ extracted[i].confidence = 1000
          /\ \E i \in DOMAIN extracted :
               /\ extracted[i].method = "flexible"
               /\ extracted[i].fieldType = "phone"
               /\ extracted[i].value = "12"

\* C7: a request whose slot list contains a descriptor without id or name is
\* answered with success, and the other slots get the Assignments they get
\* when the list is sent without that descriptor.
C7_InvalidSlotOnlySkipped ==
  \A c \in CallIds :
    Matched(c) =>
      /\ calls[c].response.success
      /\ MappingsOf(c)
           = generateFieldMappings(ValidFields(calls[c].fields),
                                   ExtractedOf[calls[c].siteData.data]).mappings

Processed(c) ==
  /\ Matched(c)
  /\ calls[c].action = "processFormData"
  /\ calls[c].response.success

\* C11: the overall confidence of an answer is 0 (the pair <<0, 1>>) when
\* the answer has no Assignment, and otherwise the arithmetic mean of the
\* confidences of its Assignments (the pair of their sum and their number),
\* so that it is exactly 1.0 when every confidence is 1.0.
C11_OverallConfidenceIsMean ==
  \A c \in CallIds :
    Processed(c) =>
      LET mappings == calls[c].response.data.mappings
          confidence == calls[c].response.data.confidence
          total[n \in 0..Len(mappings)] ==
            IF n = 0 THEN 0 ELSE total[n - 1] + mappings[n].confidence
      IN /\ mappings = <<>> => confidence = <<0, 1>>
         /\ mappings # <<>> =>
              /\ confidence = <<total[Len(mappings)], Len(mappings)>>
              /\ (\A n \in DOMAIN mappings : mappings[n].confidence = 1000)
                   => confidence[1] = 1000 * confidence[2]

\* an answer with two Assignments, both of confidence 1.0, and the overall
\* confidence 1.0
C11_Witness_AllOnes ==
  \E c \in CallIds :
    /\ Processed(c)
    /\ Len(calls[c].response.data.mappings) = 2
    /\ \A m \in Range(calls[c].response.data.mappings) : m.confidence = 1000
    /\ calls[c].response.data.confidence = <<2000, 2>>

\* the value that an extraction result holds for a type, as a list of at
\* most one
ValueOf(extracted, fieldType) ==
  LET found == SelectSeq(extracted, LAMBDA e : e.fieldType = fieldType)
  IN IF found = <<>> THEN <<>> ELSE <<found[1].value>>

\* C12 (Scenario A): the extraction of the three-line text has
\* principalInvestigator = 'Dr. Jane Smith', found by the pattern for
\* 'principal investigator' (the bare 'dr.' pattern would leave out the
\* title), email = 'jane@hosp.org' and phone = '(555) 123-4567'.
C12_ScenarioA_Extraction ==
  \A c \in CallIds :
    (Processed(c) /\ calls[c].siteData.data = ScenarioA) =>
      LET extracted == calls[c].response.data.extractedData
      IN /\ ValueOf(extracted, "principalInvestigator") = <<"Dr. Jane Smith">>
         /\ \A k \in DOMAIN extracted :
              extracted[k].fieldType = "principalInvestigator"
                => extracted[k].pattern = fieldPatterns[1].patterns[1].source
         /\ ValueOf(extracted, "email") = <<"jane@hosp.org">>
         /\ ValueOf(extracted, "phone") = <<"(555) 123-4567">>

\* the text of Scenario A was processed and the answer holds the three
\* values; the pattern for 'dr.' matches the text as well
C12_Witness_ScenarioA ==
  \E c \in CallIds :
    /\ Processed(c)
    /\ calls[c].siteData.data = ScenarioA
    /\ Len(calls[c].response.data.extractedData) = 3
    /\ fieldPatterns[1].fieldType = "principalInvestigator"
    /\ Includes(fieldPatterns[1].patterns[1].source, "principal")
    /\ Match(fieldPatterns[1].patterns[3], ScenarioA) # <<>>
    /\ Match(fieldPatterns[1].patterns[3], ScenarioA)[1].group = "Jane Smith"

\* the Assignments that an answer holds for the slot at position i of the
\* request
AssignmentsOf(c, i) ==
  SelectSeq(MappingsOf(c), LAMBDA m : m.fieldId = calls[c].fields[i].id)

\* the slot at position i of the request has the given declared type and name
SlotIs(c, i, type, name) ==
  calls[c].fields[i].type = type /\ calls[c].fields[i].name = name

\* C13 (Scenario B): matched against the text of Scenario A, a slot with
\* declared type 'email' and name 'contact_email' gets exactly one
\* Assignment, of EntityType email, value 'jane@hosp.org' and score at least
\* 0.9 (900 thousandths).
C13_ScenarioB_EmailAssigned ==
  \A c \in CallIds :
    (Matched(c) /\ calls[c].siteData.data = ScenarioA) =>
      \A i \in DOMAIN calls[c].fields :
        SlotIs(c, i, "email", "contact_email") =>
          /\ calls[c].response.success
          /\ Len(AssignmentsOf(c, i)) = 1
          /\ AssignmentsOf(c, i)[1].extractedFrom = "email"
          /\ AssignmentsOf(c, i)[1].mappedValue = "jane@hosp.org"
          /\ AssignmentsOf(c, i)[1].confidence >= 900

\* the slot of Scenario B was matched against the text of Scenario A, where
\* phone, which comes before email in the extraction, scores above the
\* threshold by the keyword 'contact'
C13_Witness_ScenarioB ==
  \E c \in CallIds :
    /\ Matched(c)
    /\ calls[c].siteData.data = ScenarioA
    /\ calls[c].fields = <<contactEmailSlot>>
    /\ AssignmentsOf(c, 1) # <<>>
    /\ BoostedScore(contactEmailSlot, "phone") > minScore
    /\ \E j, k \in DOMAIN ExtractedOf[ScenarioA] :
         /\ j < k
         /\ ExtractedOf[ScenarioA][j].fieldType = "phone"
         /\ ExtractedOf[ScenarioA][k].fieldType = "email"

\* C14 (Scenario C): matched against the text of Scenario A, a slot with
\* declared type 'date' and name 'dob' gets no Assignment: with the
\* compatibility factor of 'date' (0.2) the score of every extracted
\* EntityType stays at or below the threshold.
C14_ScenarioC_NoAssignment ==
  \A c \in CallIds :
    (Matched(c) /\ calls[c].siteData.data = ScenarioA) =>
      \A i \in DOMAIN calls[c].fields :
        SlotIs(c, i, "date", "dob") =>
          /\ calls[c].response.success
          /\ AssignmentsOf(c, i) = <<>>
          /\ \A k \in DOMAIN ExtractedOf[ScenarioA] :
               /\ getTypeCompatibility("date", ExtractedOf[ScenarioA][k].fieldType) = 2
               /\ BoostedScore(calls[c].fields[i],
                               ExtractedOf[ScenarioA][k].fieldType) <= minScore

\* the slot of Scenario C, which the content script puts in the category
\* date, was matched against the three values of Scenario A and the answer
\* has no Assignment
C14_Witness_ScenarioC ==
  \E c \in CallIds :
    /\ Matched(c)
    /\ calls[c].siteData.data = ScenarioA
    /\ calls[c].fields = <<dobSlot>>
    /\ dobSlot.fieldCategory = "date"
    /\ Len(ExtractedOf[ScenarioA]) = 3
    /\ calls[c].response.success
    /\ MappingsOf(c) = <<>>

\* the entries that an extraction result holds for the type taxId
TaxIdEntries(c) ==
  SelectSeq(calls[c].response.data.extractedData,
            LAMBDA e : e.fieldType = "taxId")

\* a text with the line 'Tax ID: 12-3456789' was processed
TaxIdLineProcessed(c) ==
  /\ Processed(c)
  /\ Includes(calls[c].siteData.data, ScenarioD)

\* C15 (Scenario D) as stated: for a text with the line 'Tax ID: 12-3456789'
\* and neither 'EIN' nor 'federal id', the extraction has taxId =
\* '12-3456789' and the flexible key:value pass produced it.
C15_ScenarioD_TaxIdByFlexiblePass ==
  \A c \in CallIds :
    TaxIdLineProcessed(c) =>
      /\ Len(TaxIdEntries(c)) = 1
      /\ TaxIdEntries(c)[1].value = "12-3456789"
      /\ TaxIdEntries(c)[1].method = "flexible"

\* C15 (Scenario D) as amended: for such a text the extraction has taxId =
\* '12-3456789', and the strict pass produced it with the first pattern of
\* taxId's list (method 'regex'): the flexible pass, whose alias 'tax id'
\* names the same type, finds the type populated and leaves it.
C15_ScenarioD_TaxIdByStrictPass ==
  \A c \in CallIds :
    TaxIdLineProcessed(c) =>
      /\ Len(TaxIdEntries(c)) = 1
      /\ TaxIdEntries(c)[1].value = "12-3456789"
      /\ TaxIdEntries(c)[1].method = "regex"
      /\ TaxIdEntries(c)[1].pattern = "tax\\s+id[:\\s]*([0-9\\-]+)"

\* the text of Scenario D was processed: its line has the key 'Tax ID',
\* which the alias table of the flexible pass maps to taxId
C15_Witness_ScenarioD ==
  \E c \in CallIds :
    /\ TaxIdLineProcessed(c)
    /\ calls[c].siteData.data = ScenarioD
    /\ ~Includes(toLowerCase(ScenarioD), "ein")
    /\ ~Includes(toLowerCase(ScenarioD), "federal")
    /\ colonMatch(ScenarioD) # <<>>
    /\ getFieldMapping(toLowerCase(Trim(colonMatch(ScenarioD)[1].key))) = <<"taxId">>
    /\ TaxIdEntries(c) # <<>>

\* what the strict pass alone yields for each of the profile texts
StrictOf == [t \in AllTexts |-> StrictPass(1, t)]

\* what the flexible pass yields for each line of each profile text when the
\* line is the whole text and nothing is populated before it
OfferedBy ==
  [t \in AllTexts |->
     [i \in DOMAIN Lines(t) |-> extractFlexiblePatterns(Lines(t)[i], <<>>)]]

\* C18: in the result of an extraction the entries of the strict pass stand
\* unchanged (value, confidence, pattern and method) and in their order;
\* every other entry is of the flexible pass, is of a type the strict pass
\* did not populate, and holds what the first line of the text that yields
\* that type yields for it.
C18_FlexiblePassNeverOverwrites ==
  \A c \in CallIds :
    Processed(c) =>
      LET text == calls[c].siteData.data
          extracted == calls[c].response.data.extractedData
          strict == StrictOf[text]
          offered == OfferedBy[text]
      IN /\ Len(extracted) >= Len(strict)
         /\ SubSeq(extracted, 1, Len(strict)) = strict
         /\ \A k \in (Len(strict) + 1)..Len(extracted) :
              /\ extracted[k].method = "flexible"
              /\ ~Has(strict, extracted[k].fieldType)
              /\ \E i \in DOMAIN offered :
                   /\ extracted[k] \in Range(offered[i])
                   /\ \A j \in 1..(i - 1) :
                        ~Has(offered[j], extracted[k].fieldType)

\* a text was processed in which two lines yield phone and the first of them
\* gave the value, and in which a line yields email, which the strict pass
\* had populated and which kept the entry of the strict pass
C18_Witness_StrictKeptFirstLineWins ==
  \E c \in CallIds :
    /\ Processed(c)
    /\ LET text == calls[c].siteData.data
           extracted == calls[c].response.data.extractedData
       IN /\ Has(StrictOf[text], "email")
          /\ \E i \in DOMAIN OfferedBy[text] : Has(OfferedBy[text][i], "email")
          /\ \E k \in DOMAIN extracted :
               extracted[k].fieldType = "email" /\ extracted[k].method = "regex"
          /\ \E i, j \in DOMAIN OfferedBy[text] :
               /\ i < j
               /\ Has(OfferedBy[text][i], "phone")
               /\ Has(OfferedBy[text][j], "phone")
               /\ ValueOf(OfferedBy[text][i], "phone")
                    # ValueOf(OfferedBy[text][j], "phone")
               /\ ValueOf(extracted, "phone") = ValueOf(OfferedBy[text][i], "phone")

\* C19: the Assignment of a slot is of the first EntityType, in the order of
\* the extracted values, whose score is the maximum of the scores of the
\* slot: no extracted value scores higher and no earlier one scores as high.
C19_FirstMaximumWins ==
  \A c \in CallIds :
    (Matched(c) /\ calls[c].response.success) =>
      LET fields == calls[c].fields
          extracted == ExtractedOf[calls[c].siteData.data]
      IN \A m \in Range(MappingsOf(c)) :
           \A i \in DOMAIN fields :
             fields[i].id = m.fieldId =>
               \E k \in DOMAIN extracted :
                 /\ extracted[k].fieldType = m.extractedFrom
                 /\ extracted[k].value = m.mappedValue
                 /\ BoostedScore(fields[i], extracted[k].fieldType) = m.confidence
                 /\ \A j \in DOMAIN extracted :
                      /\ BoostedScore(fields[i], extracted[j].fieldType) <= m.confidence
                      /\ j < k =>
                           BoostedScore(fields[i], extracted[j].fieldType) < m.confidence

\* a slot was matched for which phone and fax, extracted in this order, both
\* reach the maximum score, and the Assignment is of phone
C19_Witness_TieFirstWins ==
  \E c \in CallIds :
    /\ Matched(c)
    /\ calls[c].response.success
    /\ Len(MappingsOf(c)) = 1
    /\ MappingsOf(c)[1].extractedFrom = "phone"
    /\ LET extracted == ExtractedOf[calls[c].siteData.data]
       IN \E j, k \in DOMAIN extracted :
            /\ j < k
            /\ extracted[j].fieldType = "phone"
            /\ extracted[k].fieldType = "fax"
            /\ BoostedScore(calls[c].fields[1], "fax") = MappingsOf(c)[1].confidence
            /\ BoostedScore(calls[c].fields[1], "phone") = MappingsOf(c)[1].confidence

\* the declared type is not a key of the compatibility table
UnknownType(type) == type \notin DOMAIN compatibility

\* C20: for a slot whose declared type is not a key of the compatibility
\* table, the compatibility factor of every extracted EntityType against
\* which the slot was scored is the default 0.6 (6 tenths).
C20_UnknownTypeGetsDefault ==
  \A c \in CallIds :
    (Matched(c) /\ calls[c].response.success) =>
      \A i \in DOMAIN calls[c].fields :
        UnknownType(calls[c].fields[i].type) =>
          \A k \in DOMAIN ExtractedOf[calls[c].siteData.data] :
            getTypeCompatibility(calls[c].fields[i].type,
              ExtractedOf[calls[c].siteData.data][k].fieldType) = 6

(***************************************************************************)
(* Properties of the consent.                                              *)
(***************************************************************************)
\* the step answers a processFormData, getFieldMappings or
\* learnFromInteraction request with success (for learnFromInteraction it is
\* the step that writes learningData)
Served ==
  \E c \in CallIds :
    /\ calls[c].pc # "done"
    /\ calls'[c].pc = "done"
    /\ calls'[c].action \in {"processFormData", "getFieldMappings",
                             "learnFromInteraction"}
    /\ calls'[c].response.success

\* C16: every step in which the background serves a processFormData,
\* getFieldMappings or learnFromInteraction request, or writes learningData
\* for one, starts in a state where userConsent is stored as true: none is
\* served before consent is recorded or after it is revoked.
C16_NoProcessingWithoutConsent ==
  [][Served => hasUserConsent]_vars

(***************************************************************************)
(* Properties of the rate limiter.                                         *)
(***************************************************************************)
\* the invocations with the given arguments that resolved and whose
\* timestamps lie in the window that starts at start
ResolvedIn(operation, maxAttempts, timeWindow, start) ==
  {k \in CheckIds :
     /\ checks[k].pc = "resolved"
     /\ checks[k].operation = operation
     /\ checks[k].maxAttempts = maxAttempts
     /\ checks[k].timeWindow = timeWindow
     /\ checks[k].now >= start
     /\ checks[k].now < start + timeWindow}

\* C17: for every operation, limit and window, of the invocations of
\* checkRateLimit whose timestamps lie within one window at most maxAttempts
\* have resolved, and every invocation that ended otherwise was rejected
\* with 'Rate limit exceeded', however the invocations overlap between the
\* callback of storage.get and storage.set.
C17_AtMostMaxAttemptsResolve ==
  /\ \A o \in Operations, m \in AttemptLimits, w \in TimeWindows,
        start \in 0..MaxTicks :
       Cardinality(ResolvedIn(o, m, w, start)) <= m
  /\ \A k \in CheckIds :
       checks[k].pc = "rejected"
         => SubSeq(checks[k].error, 1, 19) = "Rate limit exceeded"


(***************************************************************************)
(* Properties of the pattern statistics.                                   *)
(***************************************************************************)
\* the values of `vals` that have the three characters `p` at their start
StartingWith(vals, p) ==
  {i \in DOMAIN vals : Len(vals[i]) >= 3 /\ SubSeq(vals[i], 1, 3) = p}

\* the values of `vals` that have the three characters `p` at their end
EndingWith(vals, p) ==
  {i \in DOMAIN vals :
     Len(vals[i]) >= 3 /\ SubSeq(vals[i], Len(vals[i]) - 2, Len(vals[i])) = p}

\* C21: once a slot of a profile has three or more accepted values, its
\* stored statistics hold, with its frequency, every three-character prefix
\* and every three-character suffix that occurs in two or more accepted
\* values; with fewer than three accepted values the statistics are empty.
C21_PrefixAndSuffixStatistics ==
  Quiescent =>
    \A s \in DOMAIN learningData : \A f \in DOMAIN learningData[s].patterns :
      LET vals == learningData[s].patterns[f].successfulValues
          stats == Range(learningData[s].patterns[f].commonPatterns)
      IN IF Len(vals) >= 3
         THEN \A i \in DOMAIN vals :
                Len(vals[i]) >= 3 =>
                  LET pre == SubSeq(vals[i], 1, 3)
                      suf == SubSeq(vals[i], Len(vals[i]) - 2, Len(vals[i]))
                  IN /\ Cardinality(StartingWith(vals, pre)) >= 2
                          => [type |-> "prefix", pattern |-> pre,
                              frequency |->
                                Cardinality(StartingWith(vals, pre))] \in stats
                     /\ Cardinality(EndingWith(vals, suf)) >= 2
                          => [type |-> "suffix", pattern |-> suf,
                              frequency |->
                                Cardinality(EndingWith(vals, suf))] \in stats
         ELSE stats = {}


(***************************************************************************)
(* Properties of the order of the pattern lists.                           *)
(***************************************************************************)
\* the pairs the claim names: a type, its multi-word pattern and the short
\* pattern that shares the keyword
KeywordPairs ==
  {[fieldType |-> "licenseNumber",
    specific |-> "license\\s+number[:\\s]*([A-Z0-9\\-]+)",
    generic |-> "license[:\\s]*([A-Z0-9\\-]+)"],
   [fieldType |-> "zipCode",
    specific |-> "zip\\s+code[:\\s]*(\\d{5}(?:-\\d{4})?)",
    generic |-> "zip[:\\s]*(\\d{5}(?:-\\d{4})?)"],
   [fieldType |-> "coordinator",
    specific |-> "study\\s+coordinator[:\\s]*([^,\\n]+)",
    generic |-> "coordinator[:\\s]*([^,\\n]+)"],
   [fieldType |-> "deaNumber",
    specific |-> "dea\\s+number[:\\s]*([A-Z0-9\\-]+)",
    generic |-> "dea[:\\s]*([A-Z0-9\\-]+)"]}

\* the patterns of a type, in the order of its list
PatternsOfType(fieldType) ==
  Only({fieldPatterns[n].patterns :
          n \in {k \in DOMAIN fieldPatterns :
                   fieldPatterns[k].fieldType = fieldType}})

\* the position of the pattern with this source in the list of its type
PositionIn(fieldType, source) ==
  Only({k \in DOMAIN PatternsOfType(fieldType) :
          PatternsOfType(fieldType)[k].source = source})

\* for each text, the pairs whose multi-word pattern matches it
SpecificMatches ==
  [t \in AllTexts |->
     {pair \in KeywordPairs :
        Match(PatternsOfType(pair.fieldType)
                [PositionIn(pair.fieldType, pair.specific)], t) # <<>>}]

\* C22: in the pattern list of every type the multi-word pattern stands
\* before the short pattern that shares its keyword ('license number' before
\* 'license', 'zip code' before 'zip', 'study coordinator' before
\* 'coordinator', 'dea number' before 'dea'), so for a text that the
\* multi-word pattern matches the value of the type is the one this pattern
\* extracts: no earlier pattern of the list shadows it.
C22_SpecificPatternBeforeGeneric ==
  \A c \in CallIds :
    Processed(c) =>
      /\ \A pair \in KeywordPairs :
           PositionIn(pair.fieldType, pair.specific)
             < PositionIn(pair.fieldType, pair.generic)
      /\ \A pair \in SpecificMatches[calls[c].siteData.data] :
           \E n \in DOMAIN calls[c].response.data.extractedData :
             LET e == calls[c].response.data.extractedData[n]
             IN /\ e.fieldType = pair.fieldType
                /\ e.pattern = pair.specific


(***************************************************************************)
(* Properties of the stored list of sites.                                 *)
(***************************************************************************)
\* the updateSiteUsage calls for a site id that have completed
UsageCompleted(s) ==
  {c \in CallIds : /\ calls[c].pc = "done"
                   /\ calls[c].action = "updateSiteUsage"
                   /\ calls[c].siteId = s}

\* C26: when n updateSiteUsage calls for a stored site have completed, in
\* whatever order their storage.get and storage.set steps were interleaved,
\* the usageCount of the site has risen by exactly n (from 0 here); a call
\* for an id that storage does not hold never reaches storage.set and the
\* list holds no entry for it.
C26_EveryUsageCounted ==
  /\ \A c \in CallIds :
       calls[c].pc = "awaitSet" => SiteExists(clinicalSites, calls[c].siteId)
  /\ Quiescent =>
       /\ Len(clinicalSites) = 1
       /\ clinicalSites[1].id = savedSite.id
       /\ clinicalSites[1].usageCount
            = savedSite.usageCount + Cardinality(UsageCompleted(savedSite.id))


\* storage.set of saveSite is applied
SaveSiteWritten ==
  /\ popup.writing /\ popup.deleted = Null
  /\ clinicalSites' = popup.toWrite

\* C27: a site that deleteSite removed from the stored list is in the list
\* again only when saveSite stores it; no storage.set of updateSiteUsage or
\* of cleanOldData, however it is interleaved with the deletion, brings it
\* back.  (In SpecSites deleteSite is the only operation that removes a
\* site.)
C27_DeletedSiteStaysDeleted ==
  [][\A s \in SiteIds :
       (~SiteExists(clinicalSites, s) /\ SiteExists(clinicalSites', s))
         => SaveSiteWritten]_vars


(***************************************************************************)
(* Properties of the answers of handleMessage.                             *)
(***************************************************************************)
KnownActions ==
  {"processFormData", "learnFromInteraction", "getFieldMappings",
   "updateSiteUsage"}

\* the handler of the request threw: a descriptor without id or name
Threw(c) ==
  /\ calls[c].action \in {"getFieldMappings", "processFormData"}
  /\ ValidFields(calls[c].fields) # calls[c].fields

\* a storage call of the handler rejected
Rejected(c) == "rejected" \in DOMAIN calls[c]

\* C30: every request gets exactly one answer: a request has an answer
\* exactly when its handling has ended, and the answer is never replaced; the
\* answer has success = true when the handler completed, and success = false
\* with an error text when the action is unknown, the handler threw or a
\* storage call rejected.
C30_ExactlyOneResponse ==
  /\ [](\A c \in CallIds :
          /\ ("response" \in DOMAIN calls[c]) <=> (calls[c].pc = "done")
          /\ calls[c].pc = "done" =>
               IF calls[c].action \notin KnownActions
               THEN calls[c].response = [success |-> FALSE,
                                         error |-> "Unknown action"]
               ELSE IF Threw(c) \/ Rejected(c)
               THEN /\ ~calls[c].response.success
                    /\ "error" \in DOMAIN calls[c].response
                    /\ calls[c].response.error
                         \in StorageErrors \cup {TypeErrorMessage}
               ELSE /\ calls[c].response.success
                    /\ "error" \notin DOMAIN calls[c].response)
  /\ [][\A c \in CallIds :
          calls[c].pc = "done" => calls'[c] = calls[c]]_vars

\* a request whose handler threw, a feedback message that was stored and a
\* message whose storage call rejected have all been answered
C30_Witness_ThrewStoredRejected ==
  /\ calls[1].pc = "done" /\ Threw(1) /\ ~calls[1].response.success
  /\ \E c \in CallIds :
       /\ calls[c].pc = "done" /\ calls[c].action = "learnFromInteraction"
       /\ calls[c].response.success
  /\ \E c \in CallIds :
       /\ calls[c].pc = "done" /\ Rejected(c)
       /\ calls[c].response = [success |-> FALSE,
                               error |-> "QUOTA_BYTES quota exceeded"]


(***************************************************************************)
(* Properties of the popup.                                                *)
(***************************************************************************)
\* C28: whenever no handler of the popup is under way, currentSite is null
\* or it is the entry of the popup's list of sites that has the selected id,
\* after any sequence of selectSite, saveSite (adding or editing) and
\* deleteSite; so what fillForms sends is the name and data saved last.
C28_CurrentSiteIsListEntry ==
  (popup.open /\ ~popup.loading /\ ~popup.writing) =>
    \/ popup.currentSite = <<>>
    \/ \E i \in DOMAIN popup.sites :
         /\ popup.sites[i].id = popup.currentSite[1].id
         /\ popup.sites[i] = popup.currentSite[1]


(***************************************************************************)
(* Properties of the stored accuracy.                                      *)
(***************************************************************************)
\* C29: in every state of storage the accuracy stored with a profile is the
\* fraction of its stored records that have wasCorrect (0 when it has no
\* record), after recordInteraction and after cleanOldData has removed the
\* old records.  An accuracy is the pair <<numerator, denominator>>.
C29_AccuracyMatchesStoredRecords ==
  \A s \in DOMAIN learningData :
    LET records == learningData[s].interactions
        correct == Cardinality({i \in DOMAIN records : records[i].wasCorrect})
        accuracy == learningData[s].accuracy
    IN /\ accuracy[2] > 0
       /\ IF records = <<>> THEN accuracy[1] = 0
          ELSE accuracy[1] * Len(records) = correct * accuracy[2]


(***************************************************************************)
(* Properties of the form observer.                                        *)
(***************************************************************************)
\* the times of the batches that added form elements, in order
FormBatches ==
  LET with == SelectSeq(content.batches, LAMBDA b : b.hasFormElements)
  IN [i \in DOMAIN with |-> with[i].time]

\* the batches after which no further batch followed within the delay
LastOfBurst ==
  {i \in DOMAIN FormBatches :
     i = Len(FormBatches) \/ FormBatches[i + 1] - FormBatches[i] >= debounceDelay}

\* C23: re-detection is debounced: for batches that add form elements and
\* follow one another within 500 ms, detectForms runs once, 500 ms after the
\* last of them.  When no timer is pending, detectForms has run once per
\* burst of batches, each time 500 ms after the last batch of the burst.
C23_OneDetectionPerBurst ==
  content.timers = <<>> =>
    /\ Len(content.runs) = Cardinality(LastOfBurst)
    /\ \A r \in DOMAIN content.runs :
         \E i \in LastOfBurst : content.runs[r] = FormBatches[i] + debounceDelay


(***************************************************************************)
(* Properties of filling and of the feedback it sends.                     *)
(***************************************************************************)
\* C24: filling records no feedback by itself: a step in which fillField
\* runs, also for an element that is in filledFields already, sends no
\* learnFromInteraction message; a message is sent only in a step in which
\* the user changed a field that had been filled.
C24_FillingSendsNoFeedback ==
  [][content'.sent # content.sent =>
       /\ content'.fills = content.fills
       /\ content'.inputs = content.inputs + 1
       /\ \E e \in DOMAIN content.filledFields :
            content'.sent = Append(content.sent, content'.sent[Len(content'.sent)])
              /\ content'.sent[Len(content'.sent)].fieldId = e]_vars

\* C25: when the value of a filled field is exactly what fillField wrote
\* into it, every interaction that validateAndLearn records for the field
\* has wasCorrect = true, whatever the type of the field (tel, number and
\* name fields, whose value fillField reformats, included).
C25_UntouchedValueIsCorrect ==
  [][\A i \in (Len(content.sent) + 1)..Len(content'.sent) :
       LET interaction == content'.sent[i]
       IN (/\ interaction.fieldId \in DOMAIN content'.written
           /\ interaction.actualValue = content'.written[interaction.fieldId])
            => interaction.wasCorrect]_vars

=============================================================================
